---- MODULE Spec2Model ----
(***************************************************************************)
(* Model of the client-side data-access and aggregation layer of the       *)
(* expense tracker front end: the HTTP wrapper and resource clients of     *)
(* src/lib/api.ts, the AuthProvider, the delete handlers of the list       *)
(* components, and the analytics page (full-range fetcher, aggregations).  *)
(***************************************************************************)
EXTENDS Integers, Sequences, FiniteSets, TLC

VARIABLES
    \* ---- browser / AuthProvider state ----
    csrf_token,      \* localStorage["csrf_token"]
    tokenIssued,     \* history: the token the last login/signup stored, "cleared" after a
                     \* logout, "unset" before any of them
    user,            \* AuthProvider user state
    pathname,        \* current route
    authLoading,     \* AuthProvider isLoading
    \* ---- network ----
    authCall,        \* the AuthProvider operation in flight
    lastReqs,        \* the requests issued by the step that led to this state
    calls,           \* the resource-client calls in flight, each with its handler
    lastResult,      \* what the most recent completed call gave its caller
    \* ---- list components ----
    deleteError,     \* deleteError state of the list component
    toasts,          \* toasts raised by the handler that ran last
    \* ---- date normalisation (getExpenses, getAverageCategorySpend) ----
    tz,              \* the viewer's timezone: minutes east of UTC
    lastQuery,       \* the query parameters of the request issued by the last step
    \* ---- analytics page: full-range fetcher ----
    serverN,         \* size of the server's result set for the selected range
    isLoading,       \* AnalyticsPage isLoading
    allExpenses,     \* AnalyticsPage allExpenses (items are their position in the result set)
    fetchPc,         \* "idle", or "awaiting" inside fetchAllExpensesForRange
    fetchedExpenses, \* local of fetchAllExpensesForRange
    currentSkip,     \* local of fetchAllExpensesForRange
    skipsIssued,     \* the skip of every getExpenses call of the current or last run
    received,        \* history: for every call of that run that has settled, its skip and
                     \* the number of items it brought (-1 when it brought no list)
    runEnd,          \* how the last run ended, and on which page
    \* ---- analytics page: aggregation (useMemo values) ----
    categories,            \* AnalyticsPage categories
    categorySpendingData,  \* the memoized category spend list
    totalSpending,         \* the memoized total
    spendingTrendData,     \* the memoized daily trend
    rendered,              \* whether the memoized values were computed from the current state
    renders,               \* how many times the memoized values were computed
    renderError,           \* whether a memo callback of the last render threw
    \* ---- consumers of the list endpoints ----
    serverItems,     \* the items the server holds for the list request
    listSeen,        \* what the consumer that ran last made of the reply
    \* ---- analytics page: date range, effects and handlers ----
    selectedStart,   \* AnalyticsPage startDate
    selectedEnd,     \* AnalyticsPage endDate
    runs,            \* the fetchInitialData / fetchAllExpensesForRange calls in flight
    avgCalls,        \* the getAverageCategorySpend calls in flight
    averageSpendData,     \* AnalyticsPage averageSpendData
    averageSpendLoading,  \* AnalyticsPage averageSpendLoading
    averageSpendError,    \* AnalyticsPage averageSpendError
    \* ---- list pages: categories, payment methods, expenses ----
    currentPage,     \* currentPage of the list page that is mounted
    totalCount,      \* its totalCategories / totalPaymentMethods / totalExpenses
    serverCount,     \* how many rows the server holds for the collection
    pageFilters,     \* ExpensesPage filters
    pageItems,       \* the rows the list page shows
    pageCalls,       \* the page fetches in flight
    countCalls,      \* the fetchTotalExpenseCount calls in flight
    isLoadingExpenses,    \* ExpensesPage isLoadingExpenses
    isLoadingTotalCount   \* ExpensesPage isLoadingTotalCount

httpVars == <<csrf_token, tokenIssued, user, pathname, authLoading, authCall, lastReqs, calls, lastResult,
              deleteError, toasts>>

dateVars == <<tz, lastQuery>>

fetchVars == <<serverN, isLoading, allExpenses, fetchPc, fetchedExpenses, currentSkip,
               skipsIssued, received, runEnd>>

aggVars == <<categories, categorySpendingData, totalSpending, spendingTrendData, rendered,
            renders, renderError>>

listVars == <<serverItems, listSeen>>

analyticsVars == <<selectedStart, selectedEnd, runs, avgCalls, averageSpendData,
                   averageSpendLoading, averageSpendError>>

listPageVars == <<currentPage, totalCount, serverCount, pageFilters, pageItems, pageCalls,
                  countCalls, isLoadingExpenses, isLoadingTotalCount>>

pageVars == <<analyticsVars, listPageVars>>

\* what the actions of the HTTP part leave alone
nonHttp == <<dateVars, fetchVars, aggVars, listVars, pageVars>>

vars == <<httpVars, dateVars, fetchVars, aggVars, listVars, pageVars>>

\* ------------------------------------------------------------------------
\* Bounds
\* ------------------------------------------------------------------------
MaxInFlight == 2     \* resource-client calls a user has started and not yet seen settle

\* ------------------------------------------------------------------------
\* Values
\* ------------------------------------------------------------------------
NULL == "NULL"
UNDEFINED == "UNDEFINED"

Tokens == {"tokA", "tokB"}
TokenArgs == Tokens \cup {NULL, UNDEFINED, ""}

\* JavaScript truthiness of a string | null | undefined argument
Truthy(v) == v # NULL /\ v # UNDEFINED /\ v # ""

Statuses == {200, 401, 409, 500}
\* What fetch() settles with: a response with a status, or a rejection
\* (network failure), for which status is 0.
Responses == [settled : {"response"}, status : Statuses] \cup
             {[settled |-> "reject", status |-> 0]}

\* response.ok
ResponseOk(resp) == resp.status >= 200 /\ resp.status <= 299

\* A URL is the sequence of its path segments: <<"api","categories","1">>
\* is "/api/categories/1"; a trailing "" segment is a trailing slash.
Urls == { <<"api", "categories">>, <<"api", "expenses", "1">>,
          <<"api", "auth", "login">>, <<"api", "auth", "logout">>, <<"api", "auth">>,
          <<"api", "authority", "1">>, <<"api">>, <<"apis", "categories">> }

MethodArgs == {UNDEFINED, "GET", "POST", "PUT", "PATCH", "DELETE", "HEAD", "delete"}

\* String.prototype.toUpperCase on the method names in use
ToUpperCase(m) ==
    CASE m = "delete" -> "DELETE"
      [] m = "patch" -> "PATCH"
      [] OTHER -> m

\* HeadersInit values a caller may pass in options.headers
NoHeaders == [h \in {} |-> ""]
HeaderArgs == { [given |-> FALSE, entries |-> NoHeaders],
                [given |-> TRUE, entries |-> [h \in {"Content-Type"} |-> "text/plain"]],
                [given |-> TRUE, entries |-> [h \in {"Accept"} |-> "text/html"]] }

\* ------------------------------------------------------------------------
\* src/lib/api.ts: the HTTP wrapper
\* ------------------------------------------------------------------------
\* url.startsWith("/api/")
StartsWithApi(url) == Len(url) >= 2 /\ url[1] = "api"

\* url.startsWith("/api/auth/")
StartsWithApiAuth(url) == Len(url) >= 3 /\ url[1] = "api" /\ url[2] = "auth"

\* isApi without the exclusion of the auth namespace
isApi_AuthIncluded(url) == StartsWithApi(url)

isApi(url) == StartsWithApi(url) /\ ~StartsWithApiAuth(url)

\* isMutation with PATCH left out of the list
isMutation_NoPatch(method) ==
    ToUpperCase(IF method = UNDEFINED THEN "GET" ELSE method) \in {"POST", "PUT", "DELETE"}

isMutation(method) ==
    ToUpperCase(IF method = UNDEFINED THEN "GET" ELSE method) \in {"POST", "PUT", "PATCH", "DELETE"}

normalizeHeaders(headersInit) ==
    IF ~headersInit.given THEN NoHeaders ELSE headersInit.entries

\* f with key k set to v
SetHeader(f, k, v) == [h \in DOMAIN f \cup {k} |-> IF h = k THEN v ELSE f[h]]

\* The request fetchWithCreds hands to fetch()
WrapperRequest(url, options, csrfToken) ==
    LET h0 == normalizeHeaders(options.headers)
        h1 == SetHeader(h0, "Content-Type", "application/json")
        h2 == IF isApi(url) /\ isMutation(options.method) /\ Truthy(csrfToken)
              THEN SetHeader(h1, "X-CSRF-Token", csrfToken)
              ELSE h1
    IN [url |-> url, method |-> options.method, credentials |-> "include", headers |-> h2]

\* Error messages are sequences of words.
Unauthorized == <<"Unauthorized.", "Please", "log", "in", "again.">>
NetworkError == <<"Failed", "to", "fetch">>

\* fetchWithCreds without the status check: a 401 is returned like any response
WrapperOutcome_No401(resp) ==
    IF resp.settled = "reject" THEN [kind |-> "throw", message |-> NetworkError, status |-> 0]
    ELSE [kind |-> "return", message |-> <<>>, status |-> resp.status]

\* What fetchWithCreds gives its caller once fetch() has settled
WrapperOutcome(resp) ==
    IF resp.settled = "reject" THEN [kind |-> "throw", message |-> NetworkError, status |-> 0]
    ELSE IF resp.status = 401 THEN [kind |-> "throw", message |-> Unauthorized, status |-> 0]
    ELSE [kind |-> "return", message |-> <<>>, status |-> resp.status]

\* ------------------------------------------------------------------------
\* src/lib/api.ts: the resource clients
\* ------------------------------------------------------------------------
ListOps == {"getCategories", "getPaymentMethods", "getExpenses", "getAverageCategorySpend"}
ClientOps == ListOps \cup {"createCategory", "updateCategory", "deleteCategory",
                           "createPaymentMethod", "updatePaymentMethod", "deletePaymentMethod",
                           "createExpense", "updateExpense", "deleteExpense"}

OpUrl(op) ==
    CASE op = "getCategories" -> <<"api", "categories">>
      [] op = "getPaymentMethods" -> <<"api", "payment_methods">>
      [] op = "getExpenses" -> <<"api", "expenses">>
      [] op = "getAverageCategorySpend" -> <<"api", "analytics", "average-spend">>
      [] op = "createCategory" -> <<"api", "categories">>
      [] op = "updateCategory" -> <<"api", "categories", "1">>
      [] op = "deleteCategory" -> <<"api", "categories", "1">>
      [] op = "createPaymentMethod" -> <<"api", "payment_methods">>
      [] op = "updatePaymentMethod" -> <<"api", "payment_methods", "1">>
      [] op = "deletePaymentMethod" -> <<"api", "payment_methods", "1">>
      [] op = "createExpense" -> <<"api", "expenses">>
      [] op = "updateExpense" -> <<"api", "expenses", "1">>
      [] op = "deleteExpense" -> <<"api", "expenses", "1">>

OpMethod(op) ==
    CASE op \in ListOps -> UNDEFINED
      [] op \in {"createCategory", "createPaymentMethod", "createExpense"} -> "POST"
      [] op \in {"updateCategory", "updatePaymentMethod", "updateExpense"} -> "PATCH"
      [] op \in {"deleteCategory", "deletePaymentMethod", "deleteExpense"} -> "DELETE"

\* The message of the Error the client throws on !response.ok
OpFailure(op) ==
    CASE op = "getCategories" -> <<"Failed", "to", "fetch", "categories">>
      [] op = "getPaymentMethods" -> <<"Failed", "to", "fetch", "payment", "methods">>
      [] op = "getExpenses" -> <<"Failed", "to", "fetch", "expenses">>
      [] op = "getAverageCategorySpend" -> <<"Failed", "to", "fetch", "analytics", "data">>
      [] op = "createCategory" -> <<"Failed", "to", "create", "category">>
      [] op = "updateCategory" -> <<"Failed", "to", "update", "category">>
      [] op = "deleteCategory" -> <<"Failed", "to", "delete", "category">>
      [] op = "createPaymentMethod" -> <<"Failed", "to", "create", "payment", "method">>
      [] op = "updatePaymentMethod" -> <<"Failed", "to", "update", "payment", "method">>
      [] op = "deletePaymentMethod" -> <<"Failed", "to", "delete", "payment", "method">>
      [] op = "createExpense" -> <<"Failed", "to", "create", "expense">>
      [] op = "updateExpense" -> <<"Failed", "to", "update", "expense">>
      [] op = "deleteExpense" -> <<"Failed", "to", "delete", "expense">>

\* getCsrfTokenFromStorage() taking the branch for a missing window
getCsrfTokenFromStorage_NoWindow(storage) == NULL

\* getCsrfTokenFromStorage(): localStorage.getItem("csrf_token") in the browser
getCsrfTokenFromStorage(storage) == storage

ClientToken(op, storage) ==
    IF op \in ListOps THEN UNDEFINED ELSE getCsrfTokenFromStorage(storage)

ClientRequest(op, storage) ==
    WrapperRequest(OpUrl(op), [method |-> OpMethod(op), headers |-> [given |-> FALSE, entries |-> NoHeaders]],
                   ClientToken(op, storage))

\* What a resource client gives its caller: the wrapper's throw passes
\* through, a non-ok status throws the operation's failure, else it returns.
ClientOutcome(op, resp) ==
    LET w == WrapperOutcome(resp)
    IN IF w.kind = "throw" THEN [kind |-> "throw", message |-> w.message]
       ELSE IF ~ResponseOk(resp) THEN [kind |-> "throw", message |-> OpFailure(op)]
       ELSE [kind |-> "return", message |-> <<>>]

\* ------------------------------------------------------------------------
\* Handlers of the list components and pages
\* ------------------------------------------------------------------------
\* error.message.includes(word), on messages as word sequences
Includes(message, word) == \E i \in DOMAIN message : message[i] = word

ConflictCategory == <<"Cannot", "delete", "this", "category", "because", "it's", "being",
                      "used", "by", "existing", "expenses.">>
ConflictPaymentMethod == <<"Cannot", "delete", "this", "payment", "method", "because", "it's",
                           "being", "used", "by", "existing", "expenses.">>
NoError == <<>>

FetchHandlers == {"CategoriesPage.fetchCategories", "PaymentMethodsPage.fetchPaymentMethods",
                  "ExpensesPage.fetchExpensesPage", "ExpensesPage.fetchTotalExpenseCount"}
DeleteHandlers == {"CategoriesList.handleDelete", "PaymentMethodsList.handleDelete",
                   "ExpensesList.handleDelete"}
FormHandlers == {"CategoryForm.onSubmit", "PaymentMethodForm.onSubmit", "ExpenseForm.onSubmit"}
Handlers == DeleteHandlers \cup FetchHandlers \cup FormHandlers

HandlerOps(h) ==
    CASE h = "CategoriesList.handleDelete" -> {"deleteCategory"}
      [] h = "PaymentMethodsList.handleDelete" -> {"deletePaymentMethod"}
      [] h = "ExpensesList.handleDelete" -> {"deleteExpense"}
      [] h = "CategoriesPage.fetchCategories" -> {"getCategories"}
      [] h = "PaymentMethodsPage.fetchPaymentMethods" -> {"getPaymentMethods"}
      [] h \in {"ExpensesPage.fetchExpensesPage", "ExpensesPage.fetchTotalExpenseCount"} ->
            {"getExpenses"}
      [] h = "CategoryForm.onSubmit" -> {"createCategory", "updateCategory"}
      [] h = "PaymentMethodForm.onSubmit" -> {"createPaymentMethod", "updatePaymentMethod"}
      [] h = "ExpenseForm.onSubmit" -> {"createExpense", "updateExpense"}

\* The page a handler's component is mounted on
HandlerPage(h) ==
    CASE h \in {"PaymentMethodsList.handleDelete", "PaymentMethodsPage.fetchPaymentMethods",
                "PaymentMethodForm.onSubmit"} -> "/payment-methods"
      [] h \in {"ExpensesList.handleDelete", "ExpensesPage.fetchExpensesPage",
                "ExpensesPage.fetchTotalExpenseCount", "ExpenseForm.onSubmit"} -> "/expenses"
      [] OTHER -> "/categories"

Toast(level, message) == [level |-> level, message |-> message]

\* The catch block of a handler: the deleteError it sets and the toasts it raises
CatchDeleteError(h, message, old) ==
    CASE h = "CategoriesList.handleDelete" ->
            IF Includes(message, "409") THEN ConflictCategory
            ELSE <<"Failed", "to", "delete", "category">>
      [] h = "PaymentMethodsList.handleDelete" ->
            IF Includes(message, "409") THEN ConflictPaymentMethod
            ELSE <<"Failed", "to", "delete", "payment", "method">>
      [] OTHER -> old

CatchToasts(h, message) ==
    CASE h = "CategoriesList.handleDelete" ->
            IF Includes(message, "409") THEN {}
            ELSE {Toast("error", <<"Failed", "to", "delete", "category">>)}
      [] h = "PaymentMethodsList.handleDelete" ->
            IF Includes(message, "409") THEN {}
            ELSE {Toast("error", <<"Failed", "to", "delete", "payment", "method">>)}
      [] h = "ExpensesList.handleDelete" ->
            {Toast("error", <<"Failed", "to", "delete", "transaction">>)}
      [] h = "CategoriesPage.fetchCategories" ->
            {Toast("error", <<"Failed", "to", "load", "categories">>)}
      [] h = "PaymentMethodsPage.fetchPaymentMethods" ->
            {Toast("error", <<"Failed", "to", "load", "payment", "methods">>)}
      [] h = "ExpensesPage.fetchExpensesPage" ->
            {Toast("error", <<"Failed", "to", "load", "expenses", "page">>)}
      [] h = "ExpensesPage.fetchTotalExpenseCount" ->
            {Toast("error", <<"Failed", "to", "calculate", "total", "expenses">>)}
      [] h \in FormHandlers -> {Toast("error", message)}

SuccessToasts(h, op) ==
    CASE h = "CategoriesList.handleDelete" ->
            {Toast("success", <<"Category", "deleted", "successfully">>)}
      [] h = "PaymentMethodsList.handleDelete" ->
            {Toast("success", <<"Payment", "method", "deleted", "successfully">>)}
      [] h = "ExpensesList.handleDelete" ->
            {Toast("success", <<"Transaction", "deleted", "successfully">>)}
      [] h \in FetchHandlers -> {}
      [] h = "CategoryForm.onSubmit" ->
            IF op = "updateCategory"
            THEN {Toast("success", <<"Category", "updated", "successfully">>)}
            ELSE {Toast("success", <<"Category", "added", "successfully">>)}
      [] h = "PaymentMethodForm.onSubmit" ->
            IF op = "updatePaymentMethod"
            THEN {Toast("success", <<"Payment", "method", "updated", "successfully">>)}
            ELSE {Toast("success", <<"Payment", "method", "added", "successfully">>)}
      [] h = "ExpenseForm.onSubmit" ->
            IF op = "updateExpense"
            THEN {Toast("success", <<"Transaction", "updated", "successfully">>)}
            ELSE {Toast("success", <<"Transaction", "added", "successfully">>)}

\* a success path that patches the displayed list locally and starts no fetch
Refreshes_PatchLocally(h) == {}

\* The fetch handlers a handler's success path starts (onRefresh / onSuccess)
Refreshes(h) ==
    CASE h \in {"CategoriesList.handleDelete", "CategoryForm.onSubmit"} ->
            {"CategoriesPage.fetchCategories"}
      [] h \in {"PaymentMethodsList.handleDelete", "PaymentMethodForm.onSubmit"} ->
            {"PaymentMethodsPage.fetchPaymentMethods"}
      [] h \in {"ExpensesList.handleDelete", "ExpenseForm.onSubmit"} ->
            {"ExpensesPage.fetchExpensesPage", "ExpensesPage.fetchTotalExpenseCount"}
      [] OTHER -> {}

\* ------------------------------------------------------------------------
\* State machine: AuthProvider, handlers, direct wrapper calls
\* ------------------------------------------------------------------------
Pages == {"/", "/login", "/signup", "/categories", "/payment-methods", "/expenses"}
publicRoutes == {"/login", "/signup"}
Emails == {"a@x"}

NoOptions == [method |-> UNDEFINED, headers |-> [given |-> FALSE, entries |-> NoHeaders]]

\* A request as recorded: who issued it, with which arguments, and what went out
Sent(via, url, method, headersInit, csrfToken, req) ==
    [via |-> via, url |-> url, method |-> method, headersInit |-> headersInit,
     csrfToken |-> csrfToken, req |-> req]

SentByClient(op, storage) ==
    Sent("fetchWithCreds", OpUrl(op), OpMethod(op), NoOptions.headers, ClientToken(op, storage),
         ClientRequest(op, storage))

\* The fetch() calls of the AuthProvider, which do not go through the wrapper
AuthRequest(which) ==
    [url |-> <<"api", "auth", which>>, method |-> "POST", credentials |-> "include",
     headers |-> IF which = "logout" THEN NoHeaders
                 ELSE [h \in {"Content-Type"} |-> "application/json"]]

NoResult == [handler |-> "none", op |-> "none", resp |-> [settled |-> "none", status |-> 0],
             outcome |-> [kind |-> "none", message |-> <<>>], requests |-> 0]

HttpInit ==
    /\ csrf_token \in Tokens \cup {NULL}
    /\ tokenIssued = "unset"
    /\ user = NULL
    /\ pathname \in Pages
    /\ authLoading = FALSE
    /\ authCall = [op |-> "idle", email |-> NULL]
    /\ lastReqs = {}
    /\ calls = {}
    /\ lastResult = NoResult
    /\ deleteError = NoError
    /\ toasts = {}

\* a date-valued string: "YYYY-MM-DD" (form "date"), an ISO instant
\* "YYYY-MM-DDTHH:mm:ss.sssZ" (form "instant", ms = milliseconds into the
\* day), or undefined
DateStr(y, m, d) == [form |-> "date", y |-> y, m |-> m, d |-> d, ms |-> 0]
IsoStr(y, m, d, ms) == [form |-> "instant", y |-> y, m |-> m, d |-> d, ms |-> ms]
UndefinedDate == [form |-> "undefined", y |-> 0, m |-> 0, d |-> 0, ms |-> 0]
NoQuery == [fn |-> "none", startDate |-> UndefinedDate, endDate |-> UndefinedDate,
            params |-> [k \in {} |-> UndefinedDate], filters |-> [k \in {} |-> UndefinedDate],
            keys |-> <<>>]

\* the date part pinned, for the specifications that do not exercise it
DateIdle == tz = 0 /\ lastQuery = NoQuery

NoRun == [how |-> "none", page |-> 0]

\* the aggregation part pinned: no categories loaded, nothing to aggregate
AggIdle ==
    /\ categories = <<>> /\ categorySpendingData = <<>> /\ totalSpending = 0
    /\ spendingTrendData = <<>> /\ rendered = TRUE /\ renders = 0 /\ renderError = FALSE

\* no list reply consumed
NoList == [consumer |-> "none", shape |-> "none", items |-> <<>>, toasts |-> {}, threw |-> FALSE]

\* the list consumers pinned
ListIdle == serverItems = <<>> /\ listSeen = NoList

\* no filter chosen on the expenses page
NoFilters == [type |-> UNDEFINED]

\* the analytics page and the list pages pinned: nothing selected, nothing in flight
PageIdle ==
    /\ selectedStart = UndefinedDate /\ selectedEnd = UndefinedDate
    /\ runs = <<>> /\ avgCalls = <<>>
    /\ averageSpendData = <<>> /\ averageSpendLoading = FALSE /\ averageSpendError = NoError
    /\ currentPage = 1 /\ totalCount = 0 /\ serverCount = 0 /\ pageFilters = NoFilters
    /\ pageItems = <<>> /\ pageCalls = <<>> /\ countCalls = <<>>
    /\ isLoadingExpenses = FALSE /\ isLoadingTotalCount = FALSE

\* the analytics page as mounted, before any fetch
FetchIdle ==
    /\ serverN = 0 /\ isLoading = TRUE /\ allExpenses = <<>> /\ fetchPc = "idle"
    /\ fetchedExpenses = <<>> /\ currentSkip = 0 /\ skipsIssued = <<>> /\ received = <<>>
    /\ runEnd = NoRun

\* useEffect of AuthProvider: protect routes that require authentication
RouteGuard ==
    /\ ~authLoading /\ user = NULL /\ pathname \notin publicRoutes
    /\ pathname' = "/login"
    /\ lastReqs' = {}
    /\ UNCHANGED <<csrf_token, tokenIssued, user, authLoading, authCall, calls, lastResult,
                   deleteError, toasts>>
    /\ UNCHANGED nonHttp

\* The user follows a link once nothing is pending: the page unmounts (its
\* component state is lost) and the toasts have expired.
Navigate(p) ==
    /\ p # pathname
    /\ calls = {} /\ authCall.op = "idle"
    /\ pathname' = p
    /\ deleteError' = NoError
    /\ toasts' = {}
    /\ lastReqs' = {}
    /\ lastResult' = NoResult
    /\ UNCHANGED <<csrf_token, tokenIssued, user, authLoading, authCall, calls>>
    /\ UNCHANGED nonHttp

\* login / signup up to the await of fetch()
AuthStart(which, email) ==
    /\ authCall.op = "idle"
    /\ pathname = (IF which = "login" THEN "/login" ELSE "/signup")
    /\ authLoading' = TRUE
    /\ authCall' = [op |-> which, email |-> email]
    /\ lastReqs' = {Sent("fetch", <<"api", "auth", which>>, "POST",
                         [given |-> TRUE, entries |-> AuthRequest(which).headers], UNDEFINED,
                         AuthRequest(which))}
    /\ UNCHANGED <<csrf_token, tokenIssued, user, pathname, calls, lastResult, deleteError, toasts>>
    /\ UNCHANGED nonHttp

\* What an AuthProvider operation made of the settling of its fetch(): login
\* and signup throw into their catch block unless the response is ok, logout
\* ignores the outcome
AuthResult(which, resp) ==
    [handler |-> "AuthProvider", op |-> which, resp |-> resp,
     outcome |-> IF which = "logout" \/ (resp.settled = "response" /\ ResponseOk(resp))
                 THEN [kind |-> "return", message |-> <<>>]
                 ELSE [kind |-> "throw",
                       message |-> IF which = "login" THEN <<"Login", "failed">>
                                   ELSE <<"Signup", "failed">>],
     requests |-> 1]

\* logout removing the stored token only when its request went through
TokenAfterLogout_OnlyOnSuccess(resp, stored) ==
    IF resp.settled = "response" /\ ResponseOk(resp) THEN NULL ELSE stored

\* localStorage.removeItem("csrf_token") after the try / catch around fetch()
TokenAfterLogout(resp, stored) == NULL

\* login after fetch() settled; bodyToken is data.csrfToken
LoginSettle(resp, bodyToken) ==
    /\ authCall.op = "login"
    /\ IF resp.settled = "response" /\ ResponseOk(resp)
       THEN /\ csrf_token' = IF Truthy(bodyToken) THEN bodyToken ELSE csrf_token
            /\ tokenIssued' = IF Truthy(bodyToken) THEN bodyToken ELSE tokenIssued
            /\ user' = authCall.email
            /\ pathname' = "/"
            /\ toasts' = {Toast("success", <<"Logged", "in", "successfully">>)}
       ELSE /\ toasts' = {Toast("error", <<"Login", "failed">>)}
            /\ UNCHANGED <<csrf_token, tokenIssued, user, pathname>>
    /\ authLoading' = FALSE
    /\ authCall' = [op |-> "idle", email |-> NULL]
    /\ lastReqs' = {}
    /\ lastResult' = AuthResult("login", resp)
    /\ UNCHANGED <<calls, deleteError>>
    /\ UNCHANGED nonHttp

SignupSettle(resp, bodyToken) ==
    /\ authCall.op = "signup"
    /\ IF resp.settled = "response" /\ ResponseOk(resp)
       THEN /\ csrf_token' = IF Truthy(bodyToken) THEN bodyToken ELSE csrf_token
            /\ tokenIssued' = IF Truthy(bodyToken) THEN bodyToken ELSE tokenIssued
            /\ pathname' = "/login"
            /\ toasts' = {Toast("success", <<"Account", "created", "successfully.">>)}
       ELSE /\ toasts' = {Toast("error", <<"Signup", "failed">>)}
            /\ UNCHANGED <<csrf_token, tokenIssued, pathname>>
    /\ authLoading' = FALSE
    /\ authCall' = [op |-> "idle", email |-> NULL]
    /\ lastReqs' = {}
    /\ lastResult' = AuthResult("signup", resp)
    /\ UNCHANGED <<user, calls, deleteError>>
    /\ UNCHANGED nonHttp

LogoutStart ==
    /\ authCall.op = "idle"
    /\ pathname \notin publicRoutes
    /\ authLoading' = TRUE
    /\ authCall' = [op |-> "logout", email |-> NULL]
    /\ lastReqs' = {Sent("fetch", <<"api", "auth", "logout">>, "POST", NoOptions.headers,
                         UNDEFINED, AuthRequest("logout"))}
    /\ UNCHANGED <<csrf_token, tokenIssued, user, pathname, calls, lastResult, deleteError, toasts>>
    /\ UNCHANGED nonHttp

\* logout after the await: the same whether fetch() resolved or rejected
LogoutSettle(resp) ==
    /\ authCall.op = "logout"
    /\ user' = NULL
    /\ csrf_token' = TokenAfterLogout(resp, csrf_token)
    /\ tokenIssued' = "cleared"
    /\ toasts' = {Toast("success", <<"Logged", "out", "successfully">>)}
    /\ pathname' = "/login"
    /\ authLoading' = FALSE
    /\ authCall' = [op |-> "idle", email |-> NULL]
    /\ lastReqs' = {}
    /\ lastResult' = AuthResult("logout", resp)
    /\ UNCHANGED <<calls, deleteError>>
    /\ UNCHANGED nonHttp

\* A handler up to the await of its resource-client call
StartHandler(h, op) ==
    /\ pathname = HandlerPage(h)
    /\ op \in HandlerOps(h)
    /\ Cardinality(calls) < MaxInFlight
    /\ \A c \in calls : c.handler # h
    /\ calls' = calls \cup {[handler |-> h, op |-> op, requests |-> 1]}
    /\ lastReqs' = {SentByClient(op, csrf_token)}
    /\ UNCHANGED <<csrf_token, tokenIssued, user, pathname, authLoading, authCall, lastResult,
                   deleteError, toasts>>
    /\ UNCHANGED nonHttp

\* The rest of a handler once fetch() has settled with resp
SettleHandler(c, resp) ==
    LET out == ClientOutcome(c.op, resp)
        started == IF out.kind = "return" THEN Refreshes(c.handler) ELSE {}
    IN /\ c \in calls /\ c.handler \in Handlers
       /\ lastResult' = [handler |-> c.handler, op |-> c.op, resp |-> resp, outcome |-> out,
                         requests |-> c.requests]
       /\ calls' = (calls \ {c}) \cup
                   {[handler |-> r, op |-> CHOOSE o \in HandlerOps(r) : TRUE, requests |-> 1] :
                       r \in started}
       /\ lastReqs' = {SentByClient(CHOOSE o \in HandlerOps(r) : TRUE, csrf_token) : r \in started}
       /\ IF out.kind = "return"
          THEN /\ toasts' = SuccessToasts(c.handler, c.op)
               /\ deleteError' = IF c.handler \in {"CategoriesList.handleDelete",
                                                   "PaymentMethodsList.handleDelete"}
                                 THEN NoError ELSE deleteError
          ELSE /\ toasts' = CatchToasts(c.handler, out.message)
               /\ deleteError' = CatchDeleteError(c.handler, out.message, deleteError)
       /\ UNCHANGED <<csrf_token, tokenIssued, user, pathname, authLoading, authCall>>
       /\ UNCHANGED nonHttp

\* A call of fetchWithCreds itself, with any arguments, up to the await of fetch()
FetchWithCreds(url, method, headers, csrfToken) ==
    /\ calls = {}
    /\ calls' = {[handler |-> "fetchWithCreds", op |-> "none", requests |-> 1]}
    /\ lastReqs' = {Sent("fetchWithCreds", url, method, headers, csrfToken,
                         WrapperRequest(url, [method |-> method, headers |-> headers], csrfToken))}
    /\ lastResult' = NoResult
    /\ UNCHANGED <<csrf_token, tokenIssued, user, pathname, authLoading, authCall, deleteError, toasts>>
    /\ UNCHANGED nonHttp

\* ... and the rest of it once fetch() has settled
FetchWithCredsSettle(c, resp) ==
    LET w == WrapperOutcome(resp)
    IN /\ c \in calls /\ c.handler = "fetchWithCreds"
       /\ calls' = calls \ {c}
       /\ lastReqs' = {}
       /\ lastResult' = [handler |-> c.handler, op |-> c.op, resp |-> resp,
                         outcome |-> [kind |-> w.kind, message |-> w.message],
                         requests |-> c.requests]
       /\ UNCHANGED <<csrf_token, tokenIssued, user, pathname, authLoading, authCall, deleteError, toasts>>
       /\ UNCHANGED nonHttp

AuthNext ==
    \/ \E which \in {"login", "signup"}, email \in Emails : AuthStart(which, email)
    \/ \E resp \in Responses, t \in Tokens \cup {UNDEFINED} : LoginSettle(resp, t)
    \/ \E resp \in Responses, t \in Tokens \cup {UNDEFINED} : SignupSettle(resp, t)
    \/ LogoutStart
    \/ \E resp \in Responses : LogoutSettle(resp)

Init == HttpInit /\ DateIdle /\ FetchIdle /\ AggIdle /\ ListIdle /\ PageIdle

Next ==
    \/ RouteGuard
    \/ \E p \in Pages : Navigate(p)
    \/ AuthNext
    \/ \E h \in Handlers, op \in ClientOps : StartHandler(h, op)
    \/ \E c \in calls, resp \in Responses : SettleHandler(c, resp)

Spec == Init /\ [][Next]_vars

\* The wrapper under every argument combination, next to the AuthProvider
WrapperNext ==
    \/ AuthNext
    \/ \E url \in Urls, method \in MethodArgs, headers \in HeaderArgs, csrfToken \in TokenArgs :
            FetchWithCreds(url, method, headers, csrfToken)
    \/ \E c \in calls, resp \in Responses : FetchWithCredsSettle(c, resp)

WrapperInit ==
    HttpInit /\ DateIdle /\ FetchIdle /\ AggIdle /\ ListIdle /\ PageIdle /\ pathname \in publicRoutes

SpecWrapper == WrapperInit /\ [][WrapperNext]_vars

\* ------------------------------------------------------------------------
\* Properties of the HTTP wrapper, the resource clients and the handlers
\* ------------------------------------------------------------------------
HasCsrfHeader(r) == "X-CSRF-Token" \in DOMAIN r.req.headers
UnderApi(url) == Len(url) >= 2 /\ url[1] = "api"
UnderApiAuth(url) == Len(url) >= 3 /\ url[1] = "api" /\ url[2] = "auth"

\* C1: a POST, PUT, PATCH or DELETE through fetchWithCreds to a path under
\* /api/ but not under /api/auth/, with a non-empty token supplied, carries
\* X-CSRF-Token equal to that token; a GET, or a call with no token
\* supplied, gets no X-CSRF-Token header from the wrapper.
C1_CsrfHeaderOnProtectedMutations ==
    \A r \in lastReqs : r.via = "fetchWithCreds" =>
        /\ ( /\ r.method \in {"POST", "PUT", "PATCH", "DELETE"}
             /\ UnderApi(r.url) /\ ~UnderApiAuth(r.url)
             /\ r.csrfToken \notin {NULL, UNDEFINED, ""} )
           => (HasCsrfHeader(r) /\ r.req.headers["X-CSRF-Token"] = r.csrfToken)
        /\ (r.method \in {"GET", UNDEFINED} \/ r.csrfToken \in {NULL, UNDEFINED})
           => ~HasCsrfHeader(r)

C1_Witness ==
    \E r \in lastReqs :
        /\ r.via = "fetchWithCreds" /\ r.method = "PATCH" /\ r.url = <<"api", "expenses", "1">>
        /\ r.csrfToken = "tokA" /\ HasCsrfHeader(r) /\ r.req.headers["X-CSRF-Token"] = "tokA"

\* C2: no request to a path under /api/auth/ carries an X-CSRF-Token header,
\* whatever the method, also when a token is stored or supplied to the wrapper.
C2_NoCsrfHeaderOnAuth ==
    \A r \in lastReqs : UnderApiAuth(r.url) => ~HasCsrfHeader(r)

C2_Witness ==
    \E r \in lastReqs :
        /\ r.via = "fetchWithCreds" /\ r.url = <<"api", "auth", "login">> /\ r.method = "POST"
        /\ r.csrfToken = "tokA" /\ csrf_token = "tokB" /\ ~HasCsrfHeader(r)

\* The 'used by existing expenses' message is on screen
ConflictShown ==
    \/ Includes(deleteError, "existing")
    \/ \E t \in toasts : Includes(t.message, "existing")

\* C3: a delete handler whose call received HTTP 409 surfaces the Conflict
\* kind (the 'used by existing expenses' message), for categories, payment
\* methods and expenses alike.
C3_ConflictOn409 ==
    (lastResult.handler \in DeleteHandlers /\ lastResult.resp.status = 409) => ConflictShown

\* C8: on a 401 the call fails with the Unauthorized error: the caller gets
\* neither the operation-specific failure nor a return value, and the call
\* issued exactly one request.
C8_UnauthorizedOn401 ==
    (lastResult.handler \in Handlers /\ lastResult.resp.status = 401) =>
        /\ lastResult.outcome.kind = "throw"
        /\ lastResult.outcome.message = Unauthorized
        /\ lastResult.outcome.message # OpFailure(lastResult.op)
        /\ lastResult.requests = 1

C8_Witness ==
    /\ lastResult.handler = "CategoriesList.handleDelete" /\ lastResult.op = "deleteCategory"
    /\ lastResult.resp.status = 401 /\ lastResult.outcome.message = Unauthorized

\* C9: once a resource-client call has received a 401, the session is ended:
\* the user is cleared or is at a re-authentication page.
C9_SessionEndedOn401 ==
    (lastResult.handler \in Handlers /\ lastResult.resp.status = 401) =>
        (user = NULL \/ pathname \in publicRoutes)

\* ------------------------------------------------------------------------
\* Dates: the JavaScript Date operations used by src/lib/api.ts
\* ------------------------------------------------------------------------
MsPerDay == 86400000
MsPerMinute == 60000
YearRange == 2022 .. 2026

IsLeap(y) == (y % 4 = 0 /\ y % 100 # 0) \/ y % 400 = 0

DaysInMonth(y, m) ==
    CASE m \in {1, 3, 5, 7, 8, 10, 12} -> 31
      [] m \in {4, 6, 9, 11} -> 30
      [] m = 2 -> IF IsLeap(y) THEN 29 ELSE 28

\* days from 1970-01-01 to the first day of year y
DaysBeforeYear(y) ==
    365 * (y - 1970) + ((y - 1969) \div 4) - ((y - 1901) \div 100) + ((y - 1601) \div 400)

RECURSIVE DaysBeforeMonth(_, _)
DaysBeforeMonth(y, m) == IF m = 1 THEN 0 ELSE DaysBeforeMonth(y, m - 1) + DaysInMonth(y, m - 1)

\* day number (days since 1970-01-01) of a calendar date; d may exceed the month
DaysFromCivil(y, m, d) == DaysBeforeYear(y) + DaysBeforeMonth(y, m) + (d - 1)

\* calendar date of a day number
CivilFromDays(n) ==
    LET y == CHOOSE yy \in YearRange : DaysBeforeYear(yy) <= n /\ n < DaysBeforeYear(yy + 1)
        doy == n - DaysBeforeYear(y)
        m == CHOOSE mm \in 1 .. 12 :
                 DaysBeforeMonth(y, mm) <= doy /\ doy < DaysBeforeMonth(y, mm) + DaysInMonth(y, mm)
    IN [y |-> y, m |-> m, d |-> doy - DaysBeforeMonth(y, m) + 1]

\* A Date object: a time value (day number, milliseconds into the day, UTC) or Invalid Date
InvalidDate == [valid |-> FALSE, day |-> 0, ms |-> 0]
TimeValue(day, ms) == [valid |-> TRUE, day |-> day, ms |-> ms]

IsRealDate(v) == v.m \in 1 .. 12 /\ v.d \in 1 .. DaysInMonth(v.y, v.m)

\* new Date("YYYY-MM-DD"): a date-only string is UTC midnight of that date.
\* A day of the month that the month does not have is rejected by some
\* engines and rolled over into the next month by others.
NewDate(v) ==
    IF IsRealDate(v) THEN {TimeValue(DaysFromCivil(v.y, v.m, v.d), 0)}
    ELSE IF v.m \in 1 .. 12 /\ v.d \in 1 .. 31
         THEN {InvalidDate, TimeValue(DaysFromCivil(v.y, v.m, v.d), 0)}
         ELSE {InvalidDate}

\* the calendar date the viewer's clock shows at a time value
LocalCivil(date, zone) ==
    CivilFromDays(date.day + ((date.ms + zone * MsPerMinute) \div MsPerDay))

getFullYear(date, zone) == LocalCivil(date, zone).y
getMonth(date, zone) == LocalCivil(date, zone).m - 1
getDate(date, zone) == LocalCivil(date, zone).d

\* Date.UTC(year, monthIndex, day, h, min, s, ms), the time of day given in ms
DateUTC(year, monthIndex, day, ms) == TimeValue(DaysFromCivil(year, monthIndex + 1, day), ms)

toISOString(date) ==
    LET c == CivilFromDays(date.day) IN IsoStr(c.y, c.m, c.d, date.ms)

\* /^\d{4}-\d{2}-\d{2}$/.test(value)
MatchesYmd(v) == v.form = "date"

EndOfDayMs == ((23 * 60 + 59) * 60 + 59) * 1000 + 999

\* The value sent for a startDate / endDate given what new Date(value) produced;
\* atMs is the time of day handed to Date.UTC
NormalizeDate(v, parsed, zone, atMs) ==
    IF MatchesYmd(v) /\ parsed.valid
    THEN toISOString(DateUTC(getFullYear(parsed, zone), getMonth(parsed, zone),
                             getDate(parsed, zone), atMs))
    ELSE v

\* the outcomes of new Date(value) that the code looks at
Parses(v) == IF MatchesYmd(v) THEN NewDate(v) ELSE {InvalidDate}

\* filter values that are not dates: a number, a string
NumberValue(n) == [form |-> "number", n |-> n]
TextValue(t) == [form |-> "text", t |-> t]

\* String(value) for a number
StringOfNumber(n) == CASE n = 0 -> "0" [] n = 10 -> "10" [] n = 20 -> "20" [] n = 500 -> "500"

\* String(value): a string stays as it is
StringOf(v) == IF v.form = "number" THEN TextValue(StringOfNumber(v.n)) ELSE v

\* a test for truthiness in place of the comparison with undefined
IsDefined_Truthy(v) == v.form # "undefined" /\ ~(v.form = "number" /\ v.n = 0)

\* value !== undefined
IsDefined(v) == v.form # "undefined"

\* Object.entries(filters) restricted to the defined values
DefinedKeys(filters) == {k \in DOMAIN filters : IsDefined(filters[k])}

\* the fields of ExpenseFilters in the order the callers write them
FilterKeys == <<"startDate", "endDate", "categoryId", "paymentMethodId", "type", "skip", "limit">>

\* the keys queryParams.append was called with, in order, for the entries
\* named by keys
RECURSIVE Appended(_, _)
Appended(keys, filters) ==
    IF keys = <<>> THEN <<>>
    ELSE (IF IsDefined(filters[Head(keys)]) THEN <<Head(keys)>> ELSE <<>>)
         \o Appended(Tail(keys), filters)

\* filters other than the dates, each given or left undefined
OtherFilters ==
    [categoryId : {UndefinedDate, TextValue("c1")}, paymentMethodId : {UndefinedDate, TextValue("p1")},
     type : {UndefinedDate, TextValue("Need")}, skip : {UndefinedDate, NumberValue(0)},
     limit : {UndefinedDate, NumberValue(10)}]

\* the ExpenseFilters objects getExpenses is called with: every pair of dates
\* with the other fields all undefined or all given, and every choice of the
\* other fields with a start date given or not
FilterInputs(dates) ==
    { <<s, e, o>> : s \in dates \cup {UndefinedDate}, e \in dates \cup {UndefinedDate},
                    o \in {f \in OtherFilters :
                              \/ \A k \in DOMAIN f : f[k].form = "undefined"
                              \/ \A k \in DOMAIN f : f[k].form # "undefined"} }
    \cup { <<s, UndefinedDate, o>> : s \in {UndefinedDate, DateStr(2024, 1, 1)}, o \in OtherFilters }

\* the skip and limit arguments of getCategories / getPaymentMethods
PagingArgs == {UndefinedDate, NumberValue(0), NumberValue(20)}

TzOffsets == {-720, -300, -60, 0, 60, 330, 840}
DateInputs == { DateStr(2023, 12, 31), DateStr(2024, 1, 1), DateStr(2024, 2, 29),
                DateStr(2024, 3, 1), DateStr(2024, 2, 30),
                IsoStr(2024, 1, 1, 0) }

DateInit ==
    /\ csrf_token = NULL /\ tokenIssued = "unset" /\ user = "a@x" /\ pathname = "/" /\ authLoading = FALSE
    /\ authCall = [op |-> "idle", email |-> NULL]
    /\ lastReqs = {} /\ calls = {} /\ lastResult = NoResult
    /\ deleteError = NoError /\ toasts = {}
    /\ tz \in TzOffsets
    /\ lastQuery = NoQuery
    /\ FetchIdle /\ AggIdle /\ ListIdle /\ PageIdle

\* getExpenses(filters) up to the await of fetchWithCreds
GetExpenses(startDate, endDate, others) ==
    /\ calls = {}
    /\ \E ps \in Parses(startDate), pe \in Parses(endDate) :
         LET filters == [k \in {FilterKeys[i] : i \in DOMAIN FilterKeys} |->
                            CASE k = "startDate" -> startDate
                              [] k = "endDate" -> endDate
                              [] OTHER -> others[k]]
             sent == [k \in DOMAIN filters |->
                         CASE k = "startDate" -> NormalizeDate(startDate, ps, tz, 0)
                           [] k = "endDate" -> NormalizeDate(endDate, pe, tz, 0)
                           [] OTHER -> StringOf(filters[k])]
         IN lastQuery' = [fn |-> "getExpenses", startDate |-> startDate, endDate |-> endDate,
                          params |-> [k \in DefinedKeys(filters) |-> sent[k]],
                          filters |-> filters, keys |-> Appended(FilterKeys, filters)]
    /\ calls' = {[handler |-> "getExpenses", op |-> "getExpenses", requests |-> 1]}
    /\ lastReqs' = {SentByClient("getExpenses", csrf_token)}
    /\ lastResult' = NoResult
    /\ UNCHANGED <<csrf_token, tokenIssued, user, pathname, authLoading, authCall, deleteError,
                   toasts, tz>>
    /\ UNCHANGED <<fetchVars, aggVars, listVars, pageVars>>

\* getCategories(skip, limit) / getPaymentMethods(skip, limit) up to the await
GetList(op, skip, limit) ==
    /\ calls = {}
    /\ LET args == [skip |-> skip, limit |-> limit]
       IN lastQuery' = [fn |-> op, startDate |-> UndefinedDate, endDate |-> UndefinedDate,
                        params |-> [k \in DefinedKeys(args) |-> StringOf(args[k])],
                        filters |-> args, keys |-> Appended(<<"skip", "limit">>, args)]
    /\ calls' = {[handler |-> op, op |-> op, requests |-> 1]}
    /\ lastReqs' = {SentByClient(op, csrf_token)}
    /\ lastResult' = NoResult
    /\ UNCHANGED <<csrf_token, tokenIssued, user, pathname, authLoading, authCall, deleteError,
                   toasts, tz>>
    /\ UNCHANGED <<fetchVars, aggVars, listVars, pageVars>>

\* getAverageCategorySpend(startDate, endDate) up to the await of fetchWithCreds
GetAverageCategorySpend(startDate, endDate) ==
    /\ calls = {}
    /\ startDate.form # "undefined" /\ endDate.form # "undefined"
    /\ \E ps \in Parses(startDate), pe \in Parses(endDate) :
         lastQuery' = [fn |-> "getAverageCategorySpend", startDate |-> startDate,
                       endDate |-> endDate,
                       params |-> [startDate |-> NormalizeDate(startDate, ps, tz, 0),
                                   endDate |-> NormalizeDate(endDate, pe, tz, EndOfDayMs)],
                       filters |-> [startDate |-> startDate, endDate |-> endDate],
                       keys |-> <<"startDate", "endDate">>]
    /\ calls' = {[handler |-> "getAverageCategorySpend", op |-> "getAverageCategorySpend",
                  requests |-> 1]}
    /\ lastReqs' = {SentByClient("getAverageCategorySpend", csrf_token)}
    /\ lastResult' = NoResult
    /\ UNCHANGED <<csrf_token, tokenIssued, user, pathname, authLoading, authCall, deleteError, toasts, tz>>
    /\ UNCHANGED <<fetchVars, aggVars, listVars, pageVars>>

\* the rest of either call once fetch() has settled
QuerySettle(c, resp) ==
    /\ c \in calls /\ c.handler \in ListOps
    /\ calls' = calls \ {c}
    /\ lastReqs' = {}
    /\ lastQuery' = NoQuery
    /\ lastResult' = [handler |-> c.handler, op |-> c.op, resp |-> resp,
                      outcome |-> ClientOutcome(c.op, resp), requests |-> c.requests]
    /\ UNCHANGED <<csrf_token, tokenIssued, user, pathname, authLoading, authCall, deleteError, toasts, tz>>
    /\ UNCHANGED <<fetchVars, aggVars, listVars, pageVars>>

DateNext ==
    \/ \E f \in FilterInputs(DateInputs) : GetExpenses(f[1], f[2], f[3])
    \/ \E op \in {"getCategories", "getPaymentMethods"}, skip \in PagingArgs, limit \in PagingArgs :
          GetList(op, skip, limit)
    \/ \E s \in DateInputs, e \in DateInputs : GetAverageCategorySpend(s, e)
    \/ \E c \in calls, resp \in Responses : QuerySettle(c, resp)

SpecDate == DateInit /\ [][DateNext]_vars

\* C4: for a real calendar date D given as YYYY-MM-DD and any timezone of the
\* viewer, the start boundary sent by getExpenses and getAverageCategorySpend
\* is D 00:00:00.000 UTC and the end boundary sent by getAverageCategorySpend
\* is D 23:59:59.999 UTC.
C4_BoundariesOnTheSameDay ==
    /\ (lastQuery.fn # "none" /\ lastQuery.startDate.form = "date" /\ IsRealDate(lastQuery.startDate))
       => lastQuery.params.startDate =
              IsoStr(lastQuery.startDate.y, lastQuery.startDate.m, lastQuery.startDate.d, 0)
    /\ (lastQuery.fn = "getAverageCategorySpend" /\ lastQuery.endDate.form = "date"
            /\ IsRealDate(lastQuery.endDate))
       => lastQuery.params.endDate =
              IsoStr(lastQuery.endDate.y, lastQuery.endDate.m, lastQuery.endDate.d, EndOfDayMs)

\* ------------------------------------------------------------------------
\* src/components/analytics/analytics-page.tsx: the full-range fetcher
\* ------------------------------------------------------------------------
DATA_FETCH_LIMIT == 500
MaxFullPages == 2    \* the largest result set has MaxFullPages full pages and a short one

ResultSizes == {k * DATA_FETCH_LIMIT + r : k \in 0 .. MaxFullPages, r \in {0, 1, 137}}

Min(a, b) == IF a < b THEN a ELSE b
Max(a, b) == IF a > b THEN a ELSE b

\* What the server holds for (skip, limit) when its result set has n items:
\* items are numbered by their position in the result set
ServerPage(n, skip, limit) == [i \in 1 .. Min(limit, Max(n - skip, 0)) |-> skip + i]

\* How a getExpenses call can settle: a 200 whose body is a bare array, an
\* object with an items array or something else; a non-ok status; a rejection
PageReplies ==
    {[settled |-> "response", status |-> 200, body |-> b] : b \in {"array", "items", "other"}}
    \cup {[settled |-> "response", status |-> st, body |-> "other"] : st \in {401, 500}}
    \cup {[settled |-> "reject", status |-> 0, body |-> "other"]}

\* expensesToAdd: the items of either accepted shape, else null
ExpensesToAdd(reply, n, skip) ==
    IF reply.body \in {"array", "items"}
    THEN [isNull |-> FALSE, items |-> ServerPage(n, skip, DATA_FETCH_LIMIT)]
    ELSE [isNull |-> TRUE, items |-> <<>>]

\* the loop goes on after a page only while hasMore stays true, but stopping
\* only on an empty page
HasMore_UntilEmpty(items) == Len(items) > 0

\* hasMore after a page was added
HasMore(items) == ~(Len(items) < DATA_FETCH_LIMIT)

InvalidRange == <<"Invalid", "date", "range", "selected.">>
UnexpectedFormat == <<"Failed", "to", "fetch", "expenses.", "Unexpected", "data", "format",
                      "from", "server.">>
MightBeIncomplete == <<"Received", "unexpected", "data", "format", "on", "subsequent", "fetch",
                       "page.", "Data", "might", "be", "incomplete.">>
FetchedCount == <<"Workspaceed", "<count>", "expenses.">>
NoExpensesFound == <<"No", "expenses", "found", "for", "the", "selected", "period.">>
FetchFailed == <<"Failed", "to", "fetch", "expenses", "for", "the", "report.">>

\* the toast of the malformed-body branch, with the warning replaced by the error
MalformedToasts_AlwaysError(skip) == {Toast("error", UnexpectedFormat)}

\* the toast of the malformed-body branch
MalformedToasts(skip) ==
    IF skip = 0 THEN {Toast("error", UnexpectedFormat)}
    ELSE {Toast("warning", MightBeIncomplete)}

\* the toasts after the loop
AfterLoopToasts(fetched, skip) ==
    IF Len(fetched) > 0 THEN {Toast("success", FetchedCount)}
    ELSE IF skip = 0 THEN {Toast("info", NoExpensesFound)}
    ELSE {}

\* the catch block leaving the stored expenses as they were
StoredOnThrow_Keep(old) == old

\* what the catch block stores
StoredOnThrow(old) == <<>>

\* new Date(start) > new Date(end), on real dates
DateAfter(a, b) == DaysFromCivil(a.y, a.m, a.d) > DaysFromCivil(b.y, b.m, b.d)

\* !start || !end || new Date(start) > new Date(end)
InvalidDateRange(start, end) ==
    start.form = "undefined" \/ end.form = "undefined" \/ DateAfter(start, end)

RangeInputs == {DateStr(2024, 1, 1), DateStr(2024, 2, 29), UndefinedDate}

FetchInit ==
    /\ csrf_token = NULL /\ tokenIssued = "unset" /\ user = "a@x" /\ pathname = "/" /\ authLoading = FALSE
    /\ authCall = [op |-> "idle", email |-> NULL]
    /\ lastReqs = {} /\ calls = {} /\ lastResult = NoResult
    /\ deleteError = NoError /\ toasts = {}
    /\ DateIdle
    /\ serverN \in ResultSizes
    /\ isLoading = TRUE /\ allExpenses = <<>> /\ fetchPc = "idle"
    /\ fetchedExpenses = <<>> /\ currentSkip = 0 /\ skipsIssued = <<>> /\ received = <<>>
    /\ runEnd = NoRun
    /\ AggIdle /\ ListIdle /\ PageIdle

fetchFrame == <<csrf_token, tokenIssued, user, pathname, authLoading, authCall, lastReqs, calls, lastResult,
                deleteError, dateVars, serverN, aggVars, listVars, pageVars>>

\* fetchAllExpensesForRange(start, end) up to its first await
FetchAllExpensesForRange(start, end) ==
    /\ fetchPc = "idle"
    /\ IF InvalidDateRange(start, end)
       THEN /\ toasts' = {Toast("error", InvalidRange)}
            /\ runEnd' = [how |-> "invalid", page |-> 0]
            /\ skipsIssued' = <<>>
            /\ received' = <<>>
            /\ UNCHANGED <<isLoading, allExpenses, fetchPc, fetchedExpenses, currentSkip>>
       ELSE /\ isLoading' = TRUE
            /\ fetchedExpenses' = <<>>
            /\ currentSkip' = 0
            /\ skipsIssued' = <<0>>
            /\ received' = <<>>
            /\ fetchPc' = "awaiting"
            /\ toasts' = {}
            /\ runEnd' = NoRun
            /\ UNCHANGED allExpenses
    /\ UNCHANGED fetchFrame

\* one turn of the loop from the settling of getExpenses on, and, when the
\* loop ends, the rest of the function
FetchPageSettle(reply) ==
    /\ fetchPc = "awaiting"
    /\ received' = Append(received,
                          [skip |-> currentSkip,
                           count |-> IF ClientOutcome("getExpenses", reply).kind = "throw"
                                        \/ ExpensesToAdd(reply, serverN, currentSkip).isNull
                                     THEN -1
                                     ELSE Len(ExpensesToAdd(reply, serverN, currentSkip).items)])
    /\ LET out == ClientOutcome("getExpenses", reply)
           add == ExpensesToAdd(reply, serverN, currentSkip)
           page == Len(skipsIssued)
           fetched == fetchedExpenses \o add.items
       IN IF out.kind = "throw"
          THEN \* catch, finally
               /\ toasts' = toasts \cup {Toast("error", FetchFailed)}
               /\ allExpenses' = StoredOnThrow(allExpenses)
               /\ isLoading' = FALSE
               /\ fetchPc' = "idle"
               /\ runEnd' = [how |-> "threw", page |-> page]
               /\ UNCHANGED <<fetchedExpenses, currentSkip, skipsIssued>>
          ELSE IF add.isNull
          THEN \* hasMore = false; the statements after the loop; finally
               /\ toasts' = toasts \cup MalformedToasts(currentSkip)
                              \cup AfterLoopToasts(fetchedExpenses, currentSkip)
               /\ allExpenses' = fetchedExpenses
               /\ isLoading' = FALSE
               /\ fetchPc' = "idle"
               /\ runEnd' = [how |-> "malformed", page |-> page]
               /\ UNCHANGED <<fetchedExpenses, currentSkip, skipsIssued>>
          ELSE IF HasMore(add.items)
          THEN \* next page: the next getExpenses call is issued
               /\ fetchedExpenses' = fetched
               /\ currentSkip' = currentSkip + DATA_FETCH_LIMIT
               /\ skipsIssued' = Append(skipsIssued, currentSkip + DATA_FETCH_LIMIT)
               /\ UNCHANGED <<toasts, allExpenses, isLoading, fetchPc, runEnd>>
          ELSE \* short page: the statements after the loop; finally
               /\ fetchedExpenses' = fetched
               /\ toasts' = toasts \cup AfterLoopToasts(fetched, currentSkip)
               /\ allExpenses' = fetched
               /\ isLoading' = FALSE
               /\ fetchPc' = "idle"
               /\ runEnd' = [how |-> "short", page |-> page]
               /\ UNCHANGED <<currentSkip, skipsIssued>>
    /\ UNCHANGED fetchFrame

FetchNext ==
    \/ \E start \in RangeInputs, end \in RangeInputs : FetchAllExpensesForRange(start, end)
    \/ \E reply \in PageReplies : FetchPageSettle(reply)

SpecFetch == FetchInit /\ [][FetchNext]_vars

\* the first n items of the server's result set, in its order
FirstItems(n) == [i \in 1 .. n |-> i]

\* C5: over honest pages the fetcher issues floor(N/P)+1 calls with skip
\* 0, P, 2P, ... in that order, stops after the first short page and stores
\* the N items in request order; for N = 0 that is one call and no items.
C5_HonestPagesFetchedOnce ==
    /\ \A i \in 1 .. Len(skipsIssued) : skipsIssued[i] = (i - 1) * DATA_FETCH_LIMIT
    /\ fetchPc = "awaiting" => Len(fetchedExpenses) = (Len(skipsIssued) - 1) * DATA_FETCH_LIMIT
    /\ runEnd.how = "short" =>
          /\ fetchPc = "idle"
          /\ Len(skipsIssued) = (serverN \div DATA_FETCH_LIMIT) + 1
          /\ allExpenses = FirstItems(serverN)
          /\ serverN = 0 => (skipsIssued = <<0>> /\ allExpenses = <<>>)

C5_Witness ==
    /\ runEnd.how = "short" /\ serverN = 2 * DATA_FETCH_LIMIT + 137
    /\ skipsIssued = <<0, DATA_FETCH_LIMIT, 2 * DATA_FETCH_LIMIT>>
    /\ Len(allExpenses) = 2 * DATA_FETCH_LIMIT + 137

C7_FirstPageFailureClears ==
    (runEnd.how \in {"threw", "malformed"} /\ runEnd.page = 1) =>
        /\ allExpenses = <<>>
        /\ \E t \in toasts : t.level = "error" /\ t.message \in {FetchFailed, UnexpectedFormat}
        /\ fetchPc = "idle"
        /\ skipsIssued = <<0>>

C7_Witness ==
    /\ runEnd = [how |-> "threw", page |-> 1] /\ serverN > 0
    /\ allExpenses = <<>> /\ Toast("error", FetchFailed) \in toasts /\ skipsIssued = <<0>>

\* ------------------------------------------------------------------------
\* src/components/analytics/analytics-page.tsx: category spend aggregation
\* ------------------------------------------------------------------------
MaxExpenses == 3     \* longest expense sequence aggregated
MaxRenders == 2      \* how often the memoized values are recomputed from the same inputs

\* A JSON amount: a number, or something that is not a number (a string)
Num(v) == [isNumber |-> TRUE, v |-> v]
NotANumber == [isNumber |-> FALSE, v |-> 0]

Expense(cat, amount, type, timestamp) ==
    [category_id |-> cat, amount |-> amount, type |-> type, timestamp |-> timestamp]

\* an expense without a timestamp
NoTimestamp == UndefinedDate

\* a timestamp that came as a number (milliseconds since the epoch), not a string
EpochMillis == [form |-> "number", y |-> 0, m |-> 0, d |-> 0, ms |-> 0]

ExpensePool ==
    { Expense("c1", Num(10), "Need", IsoStr(2024, 1, 2, 0)),
      Expense("c1", Num(25), "Want", IsoStr(2024, 1, 1, 3600000)),
      Expense("c2", Num(10), "Want", IsoStr(2024, 1, 1, 82800000)),
      Expense("c2", Num(25), "Need", IsoStr(2023, 12, 31, 0)),
      Expense("c1", Num(50), "Income", IsoStr(2024, 1, 1, 0)),
      Expense("c2", Num(25), "Investment", IsoStr(2024, 1, 2, 0)),
      Expense("c1", Num(0), "Need", IsoStr(2024, 1, 2, 0)),
      Expense("c2", Num(-10), "Want", IsoStr(2023, 12, 31, 0)),
      Expense("c1", NotANumber, "Need", IsoStr(2024, 1, 1, 0)),
      Expense("", Num(10), "Need", IsoStr(2024, 1, 2, 43200000)),
      Expense("c9", Num(10), "Want", NoTimestamp),
      Expense("c1", Num(25), "Need", EpochMillis) }

Category(id, name) == [id |-> id, name |-> name]

CategoryLists ==
    { <<>>, <<Category("c1", "Food")>>,
      <<Category("c1", "Food"), Category("c2", "Rent")>>,
      <<Category("c2", "Rent"), Category("c1", "Food")>> }

ExpenseSeqs == UNION {[1 .. n -> ExpensePool] : n \in 0 .. MaxExpenses}

\* spendingTypes with Investment counted as spending
spendingTypes_WithInvestment == {"Need", "Want", "Investment"}

spendingTypes == {"Need", "Want"}

\* A Map<string, {name, value}> is the sequence of its entries in insertion order
MapHas(map, id) == \E i \in DOMAIN map : map[i].id = id

\* map.set(id, {name, value: 0})
MapSet(map, id, name) ==
    IF MapHas(map, id)
    THEN [i \in DOMAIN map |-> IF map[i].id = id THEN [id |-> id, name |-> name, value |-> 0]
                               ELSE map[i]]
    ELSE Append(map, [id |-> id, name |-> name, value |-> 0])

\* categories.forEach: seed the map with every category that has an id and a name
RECURSIVE SeedMap(_, _)
SeedMap(map, cats) ==
    IF cats = <<>> THEN map
    ELSE LET cat == Head(cats)
         IN SeedMap(IF cat.id # "" /\ cat.name # "" THEN MapSet(map, cat.id, cat.name) ELSE map,
                    Tail(cats))

\* the body of allExpenses.forEach with the 'Other' group its comment
\* mentions: spend of a category that is not in the list is collected there
AddExpense_OtherBucket(map, expense) ==
    IF expense.category_id = "" \/ ~expense.amount.isNumber \/ expense.amount.v <= 0 THEN map
    ELSE IF expense.type \in spendingTypes
    THEN LET target == IF MapHas(map, expense.category_id) THEN expense.category_id ELSE "other"
             withTarget == IF MapHas(map, target) THEN map
                           ELSE Append(map, [id |-> "other", name |-> "Other", value |-> 0])
         IN [i \in DOMAIN withTarget |->
                IF withTarget[i].id = target
                THEN [withTarget[i] EXCEPT !.value = @ + expense.amount.v]
                ELSE withTarget[i]]
    ELSE map

\* the body of allExpenses.forEach for one expense
AddExpense(map, expense) ==
    IF expense.category_id = "" \/ ~expense.amount.isNumber \/ expense.amount.v <= 0 THEN map
    ELSE IF expense.type \in spendingTypes
    THEN [i \in DOMAIN map |->
             IF map[i].id = expense.category_id
             THEN [map[i] EXCEPT !.value = @ + expense.amount.v]
             ELSE map[i]]
    ELSE map

RECURSIVE AddExpenses(_, _)
AddExpenses(map, exps) ==
    IF exps = <<>> THEN map ELSE AddExpenses(AddExpense(map, Head(exps)), Tail(exps))

\* insert e into a sequence sorted by (a, b) => b.value - a.value, after its equals
RECURSIVE InsertDescending(_, _)
InsertDescending(sorted, e) ==
    IF sorted = <<>> THEN <<e>>
    ELSE IF Head(sorted).value >= e.value THEN <<Head(sorted)>> \o InsertDescending(Tail(sorted), e)
    ELSE <<e>> \o sorted

\* Array.prototype.sort((a, b) => b.value - a.value): stable
RECURSIVE SortDescending(_)
SortDescending(seq) ==
    IF seq = <<>> THEN <<>>
    ELSE InsertDescending(SortDescending(SubSeq(seq, 1, Len(seq) - 1)), seq[Len(seq)])

\* the filter of the category spend result letting zero totals through
PositiveValue_AllowZero(entry) == entry.value >= 0

PositiveValue(entry) == entry.value > 0

\* the categorySpendingData memo with totals that live on between runs: every
\* category starts from the total the previous run gave it
CategorySpending_Carrying(exps, cats) ==
    IF exps = <<>> \/ cats = <<>> THEN <<>>
    ELSE LET map == AddExpenses(SeedMap(<<>>, cats), exps)
             carried(name) ==
                 IF \E j \in DOMAIN categorySpendingData : categorySpendingData[j].name = name
                 THEN categorySpendingData[CHOOSE j \in DOMAIN categorySpendingData :
                                               categorySpendingData[j].name = name].value
                 ELSE 0
             values == [i \in DOMAIN map |->
                           [name |-> map[i].name, value |-> map[i].value + carried(map[i].name)]]
         IN SortDescending(SelectSeq(values, PositiveValue))

\* the categorySpendingData memo
CategorySpending(exps, cats) ==
    IF exps = <<>> \/ cats = <<>> THEN <<>>
    ELSE LET map == AddExpenses(SeedMap(<<>>, cats), exps)
             values == [i \in DOMAIN map |-> [name |-> map[i].name, value |-> map[i].value]]
         IN SortDescending(SelectSeq(values, PositiveValue))

\* the totalSpending memo: reduce((sum, entry) => sum + entry.value, 0)
RECURSIVE TotalOf(_)
TotalOf(entries) == IF entries = <<>> THEN 0 ELSE Head(entries).value + TotalOf(Tail(entries))

\* ------------------------------------------------------------------------
\* src/components/analytics/analytics-page.tsx: daily spending trend
\* ------------------------------------------------------------------------
\* timestamp.substring(0, 10) taking the whole timestamp
Substring10_Whole(timestamp) == timestamp

\* timestamp.substring(0, 10): the YYYY-MM-DD part of an ISO timestamp
Substring10(timestamp) == DateStr(timestamp.y, timestamp.m, timestamp.d)

\* dailySpendingMap.set(dateStr, (dailySpendingMap.get(dateStr) || 0) + amount),
\* the Map<string, number> being the sequence of its entries in insertion order
DailyAdd(map, dateStr, amount) ==
    IF \E i \in DOMAIN map : map[i].date = dateStr
    THEN [i \in DOMAIN map |->
             IF map[i].date = dateStr THEN [map[i] EXCEPT !.totalAmount = @ + amount]
             ELSE map[i]]
    ELSE Append(map, [date |-> dateStr, totalAmount |-> amount])

\* the body of allExpenses.forEach for one expense
AddToDay(map, expense) ==
    IF \/ expense.timestamp.form = "undefined" \/ ~expense.amount.isNumber
       \/ expense.amount.v <= 0 \/ expense.type = ""
    THEN map
    ELSE IF expense.type \in spendingTypes
    THEN DailyAdd(map, Substring10(expense.timestamp), expense.amount.v)
    ELSE map

RECURSIVE AddToDays(_, _)
AddToDays(map, exps) ==
    IF exps = <<>> THEN map ELSE AddToDays(AddToDay(map, Head(exps)), Tail(exps))

\* new Date(entry.date): the keys are dates the calendar has, which every
\* engine parses to one time value
DateOfKey(dateStr) == CHOOSE t \in NewDate(dateStr) : t.valid

\* new Date(a).getTime() - new Date(b).getTime() <= 0
NotAfter(a, b) == a.day < b.day \/ (a.day = b.day /\ a.ms <= b.ms)

\* insert e into a sequence sorted ascending by time value, after its equals
RECURSIVE InsertAscending(_, _)
InsertAscending(sorted, e) ==
    IF sorted = <<>> THEN <<e>>
    ELSE IF NotAfter(DateOfKey(Head(sorted).date), DateOfKey(e.date))
    THEN <<Head(sorted)>> \o InsertAscending(Tail(sorted), e)
    ELSE <<e>> \o sorted

\* Array.prototype.sort by the difference of the time values: stable
RECURSIVE SortAscending(_)
SortAscending(seq) ==
    IF seq = <<>> THEN <<>>
    ELSE InsertAscending(SortAscending(SubSeq(seq, 1, Len(seq) - 1)), seq[Len(seq)])

\* the spendingTrendData memo
SpendingTrend(exps) ==
    IF exps = <<>> THEN <<>> ELSE SortAscending(AddToDays(<<>>, exps))

\* expense.timestamp.substring is reached with a timestamp that has no such
\* method: the callback of allExpenses.forEach throws a TypeError
SubstringThrows(expense) ==
    /\ expense.timestamp.form = "number"
    /\ expense.amount.isNumber /\ expense.amount.v > 0 /\ expense.type # ""
    /\ expense.type \in spendingTypes

\* whether the spendingTrendData memo throws
TrendThrows(exps) == \E i \in DOMAIN exps : SubstringThrows(exps[i])

AggInit ==
    /\ csrf_token = NULL /\ tokenIssued = "unset" /\ user = "a@x" /\ pathname = "/" /\ authLoading = FALSE
    /\ authCall = [op |-> "idle", email |-> NULL]
    /\ lastReqs = {} /\ calls = {} /\ lastResult = NoResult
    /\ deleteError = NoError /\ toasts = {}
    /\ DateIdle
    /\ serverN = 0 /\ isLoading = FALSE /\ fetchPc = "idle"
    /\ fetchedExpenses = <<>> /\ currentSkip = 0 /\ skipsIssued = <<>> /\ received = <<>>
    /\ runEnd = NoRun
    /\ ListIdle /\ PageIdle
    /\ allExpenses \in ExpenseSeqs
    /\ categories \in CategoryLists
    /\ categorySpendingData = <<>> /\ totalSpending = 0 /\ spendingTrendData = <<>>
    /\ rendered = FALSE /\ renders = 0 /\ renderError = FALSE

\* A render of the analytics page in which the memo callbacks run: the
\* memoized values are recomputed from allExpenses and categories, which are
\* left as they are
Render ==
    /\ renders < MaxRenders
    /\ renders' = renders + 1
    /\ IF TrendThrows(allExpenses)
       THEN \* the render is abandoned: no memoized value is produced
            /\ renderError' = TRUE
            /\ rendered' = FALSE
            /\ UNCHANGED <<categorySpendingData, totalSpending, spendingTrendData>>
       ELSE /\ renderError' = FALSE
            /\ categorySpendingData' = CategorySpending(allExpenses, categories)
            /\ totalSpending' = TotalOf(CategorySpending(allExpenses, categories))
            /\ spendingTrendData' = SpendingTrend(allExpenses)
            /\ rendered' = TRUE
    /\ UNCHANGED <<httpVars, dateVars, fetchVars, categories, listVars, pageVars>>

AggNext == Render

SpecAgg == AggInit /\ [][AggNext]_vars

\* the sum of the amounts of the expenses of category id that are Need or
\* Want and have a positive numeric amount
RECURSIVE SpendOf(_, _)
SpendOf(id, exps) ==
    IF exps = <<>> THEN 0
    ELSE (IF /\ Head(exps).category_id = id
             /\ Head(exps).type \in {"Need", "Want"}
             /\ Head(exps).amount.isNumber /\ Head(exps).amount.v > 0
          THEN Head(exps).amount.v ELSE 0) + SpendOf(id, Tail(exps))

\* C10: the aggregation gives every known category the sum of the amounts of
\* its Need and Want expenses with a positive numeric amount (a category
\* appears with that total exactly when the total is positive); Income and
\* Investment expenses add to no total.
C10_CategoryTotals ==
    rendered =>
        /\ \A i \in DOMAIN categories :
              LET total == SpendOf(categories[i].id, allExpenses)
                  shown == {j \in DOMAIN categorySpendingData :
                                categorySpendingData[j].name = categories[i].name}
              IN IF total > 0
                 THEN \E j \in shown : categorySpendingData[j].value = total
                 ELSE shown = {}
        /\ \A j \in DOMAIN categorySpendingData :
              \E i \in DOMAIN categories :
                  /\ categorySpendingData[j].name = categories[i].name
                  /\ categorySpendingData[j].value = SpendOf(categories[i].id, allExpenses)

C10_Witness ==
    /\ rendered
    /\ categories = <<Category("c1", "Food"), Category("c2", "Rent")>>
    /\ allExpenses = <<Expense("c1", Num(10), "Need", IsoStr(2024, 1, 2, 0)),
                       Expense("c1", Num(50), "Income", IsoStr(2024, 1, 1, 0)),
                       Expense("c1", Num(25), "Want", IsoStr(2024, 1, 1, 3600000))>>
    /\ categorySpendingData = <<[name |-> "Food", value |-> 35]>>

\* the position of the category an emitted entry stands for
IndexOfName(name) == CHOOSE i \in DOMAIN categories : categories[i].name = name

TrendEligible(e) ==
    /\ e.type \in {"Need", "Want"} /\ e.amount.isNumber /\ e.amount.v > 0
    /\ e.timestamp.form = "instant"

\* the calendar date in the first 10 characters of an ISO timestamp
DateChars(ts) == [form |-> "date", y |-> ts.y, m |-> ts.m, d |-> ts.d, ms |-> 0]

\* the sum of the amounts of the eligible expenses of one calendar date
RECURSIVE SpendOn(_, _)
SpendOn(date, exps) ==
    IF exps = <<>> THEN 0
    ELSE (IF TrendEligible(Head(exps)) /\ DateChars(Head(exps).timestamp) = date
          THEN Head(exps).amount.v ELSE 0) + SpendOn(date, Tail(exps))

\* date a is earlier in the calendar than date b
EarlierDate(a, b) ==
    \/ a.y < b.y
    \/ a.y = b.y /\ a.m < b.m
    \/ a.y = b.y /\ a.m = b.m /\ a.d < b.d

\* C12: the daily trend has exactly one entry per distinct calendar date
\* (first 10 characters of the timestamp) among the expenses of type Need or
\* Want with a positive numeric amount; an entry's totalAmount is the sum of
\* those expenses' amounts for its date; the entries are in strictly
\* ascending date order whatever the order of the expenses.
C12_DailyTrendPerDateAscending ==
    rendered =>
        /\ {spendingTrendData[j].date : j \in DOMAIN spendingTrendData} =
              {DateChars(allExpenses[i].timestamp) :
                  i \in {k \in DOMAIN allExpenses : TrendEligible(allExpenses[k])}}
        /\ \A j \in DOMAIN spendingTrendData :
              spendingTrendData[j].totalAmount = SpendOn(spendingTrendData[j].date, allExpenses)
        /\ \A j, k \in DOMAIN spendingTrendData :
              j < k => EarlierDate(spendingTrendData[j].date, spendingTrendData[k].date)

C12_Witness ==
    /\ rendered
    /\ allExpenses = <<Expense("c1", Num(10), "Need", IsoStr(2024, 1, 2, 0)),
                       Expense("c2", Num(10), "Want", IsoStr(2024, 1, 1, 82800000)),
                       Expense("c1", Num(25), "Want", IsoStr(2024, 1, 1, 3600000))>>
    /\ spendingTrendData = <<[date |-> DateStr(2024, 1, 1), totalAmount |-> 35],
                             [date |-> DateStr(2024, 1, 2), totalAmount |-> 10]>>

\* a create, update or delete issued by a resource client
IsClientMutation(r) == r.via = "fetchWithCreds" /\ r.method \in {"POST", "PUT", "PATCH", "DELETE"}

\* C13: a create, update or delete call reads the CSRF token from storage when
\* it is made: in any sequence of login, signup, logout and mutation calls the
\* X-CSRF-Token header of a mutation is the token stored by the most recent
\* successful login or signup that has not been cleared since, and there is
\* no such header when the most recent of these events is a logout.
C13_MutationCarriesCurrentToken ==
    \A r \in lastReqs : IsClientMutation(r) =>
        /\ tokenIssued \in Tokens =>
              (HasCsrfHeader(r) /\ r.req.headers["X-CSRF-Token"] = tokenIssued)
        /\ tokenIssued = "cleared" => ~HasCsrfHeader(r)

C13_Witness ==
    /\ tokenIssued = "tokB" /\ user # NULL
    /\ \E r \in lastReqs :
          /\ IsClientMutation(r) /\ r.url = <<"api", "expenses">> /\ r.method = "POST"
          /\ HasCsrfHeader(r) /\ r.req.headers["X-CSRF-Token"] = "tokB"

MutationHandlers == {"CategoriesList.handleDelete", "PaymentMethodsList.handleDelete",
                     "ExpensesList.handleDelete", "CategoryForm.onSubmit",
                     "PaymentMethodForm.onSubmit", "ExpenseForm.onSubmit"}

\* the list endpoint of the collection a mutation handler works on
CollectionOf(h) ==
    CASE h \in {"CategoriesList.handleDelete", "CategoryForm.onSubmit"} -> <<"api", "categories">>
      [] h \in {"PaymentMethodsList.handleDelete", "PaymentMethodForm.onSubmit"} ->
            <<"api", "payment_methods">>
      [] h \in {"ExpensesList.handleDelete", "ExpenseForm.onSubmit"} -> <<"api", "expenses">>

\* the step in which a create, update or delete issued from the UI succeeds
MutationSucceeds ==
    /\ \E c \in calls : c \notin calls' /\ c.handler \in MutationHandlers
    /\ lastResult'.handler \in MutationHandlers
    /\ lastResult'.outcome.kind = "return"

\* C16: after every successful create, update or delete of a category, payment
\* method or expense issued from the UI, a list request for the affected
\* collection is issued: the displayed collection is fetched again.
C16_MutationThenRefetch ==
    [][MutationSucceeds =>
          \E r \in lastReqs' :
              /\ r.via = "fetchWithCreds" /\ r.method = UNDEFINED
              /\ r.url = CollectionOf(lastResult'.handler)]_vars

C16_Witness ==
    /\ lastResult.handler = "PaymentMethodForm.onSubmit" /\ lastResult.op = "updatePaymentMethod"
    /\ lastResult.outcome.kind = "return"
    /\ \E r \in lastReqs : r.url = <<"api", "payment_methods">> /\ r.method = UNDEFINED
    /\ \E c \in calls : c.handler = "PaymentMethodsPage.fetchPaymentMethods"

\* ------------------------------------------------------------------------
\* The consumers of the list endpoints and the response shapes they accept
\* ------------------------------------------------------------------------
MaxItems == 2        \* longest list a list endpoint returns

ItemIds == {"e1", "e2"}
ItemLists == UNION {[1 .. n -> ItemIds] : n \in 0 .. MaxItems}

\* The parsed JSON body of a list response: a bare array; an object with an
\* items array and a numeric total; an object with an items array only; or an
\* object with neither
ListShapes == {"array", "itemsTotal", "itemsOnly", "other"}

ListBody(shape, items) ==
    CASE shape = "array" ->
            [isArray |-> TRUE, hasItems |-> FALSE, items |-> items, total |-> NotANumber]
      [] shape = "itemsTotal" ->
            [isArray |-> FALSE, hasItems |-> TRUE, items |-> items, total |-> Num(Len(items))]
      [] shape = "itemsOnly" ->
            [isArray |-> FALSE, hasItems |-> TRUE, items |-> items, total |-> NotANumber]
      [] shape = "other" ->
            [isArray |-> FALSE, hasItems |-> FALSE, items |-> <<>>, total |-> NotANumber]

ListConsumers == {"AnalyticsPage.fetchAllExpensesForRange", "ExpensesPage.fetchExpensesPage",
                  "ExpensesPage.fetchTotalExpenseCount", "ExpensesPage.fetchStaticData",
                  "CategoriesPage.fetchCategories", "PaymentMethodsPage.fetchPaymentMethods",
                  "Dashboard.fetchDashboardData", "ExpenseForm.fetchFormData"}

\* what a consumer holds as its list afterwards, the toasts it raised, and
\* whether it went through its catch block
Took(items, raised, threw) == [items |-> items, toasts |-> raised, threw |-> threw]

InvalidFormat(what) == <<"Failed", "to", "load", what, "due", "to", "invalid", "data", "format">>

\* Array.isArray(response) ? response : response?.items || []
ItemsOrEmpty(body) ==
    IF body.isArray THEN body.items ELSE IF body.hasItems THEN body.items ELSE <<>>

\* Each consumer from the point where its list call has returned body
Consume(consumer, body) ==
    CASE consumer = "AnalyticsPage.fetchAllExpensesForRange" ->
            IF body.isArray \/ body.hasItems
            THEN Took(body.items, AfterLoopToasts(body.items, 0), FALSE)
            ELSE Took(<<>>, MalformedToasts(0) \cup AfterLoopToasts(<<>>, 0), FALSE)
      [] consumer = "ExpensesPage.fetchExpensesPage" ->
            IF body.isArray THEN Took(body.items, {}, FALSE)
            ELSE Took(<<>>, {Toast("error", <<"Failed", "to", "load", "expenses", "page">>)}, TRUE)
      [] consumer = "ExpensesPage.fetchTotalExpenseCount" ->
            IF body.isArray THEN Took(body.items, {}, FALSE)
            ELSE Took(<<>>, {Toast("error", <<"Failed", "to", "calculate", "total", "expenses">>)},
                      TRUE)
      [] consumer = "CategoriesPage.fetchCategories" ->
            IF body.hasItems /\ body.total.isNumber THEN Took(body.items, {}, FALSE)
            ELSE IF body.isArray THEN Took(body.items, {}, FALSE)
            ELSE Took(<<>>, {Toast("error", InvalidFormat("categories"))}, FALSE)
      [] consumer = "PaymentMethodsPage.fetchPaymentMethods" ->
            IF body.isArray THEN Took(body.items, {}, FALSE)
            ELSE IF body.hasItems THEN Took(body.items, {}, FALSE)
            ELSE Took(<<>>, {Toast("error", InvalidFormat("payment methods"))}, FALSE)
      [] consumer = "Dashboard.fetchDashboardData" ->
            \* monthlyExpenses.forEach is a TypeError on an object; the catch only logs
            IF body.isArray THEN Took(body.items, {}, FALSE)
            ELSE Took(<<>>, {}, TRUE)
      [] consumer \in {"ExpenseForm.fetchFormData", "ExpensesPage.fetchStaticData"} ->
            Took(ItemsOrEmpty(body), {}, FALSE)

ListInit ==
    /\ csrf_token = NULL /\ tokenIssued = "unset" /\ user = "a@x" /\ pathname = "/"
    /\ authLoading = FALSE /\ authCall = [op |-> "idle", email |-> NULL]
    /\ lastReqs = {} /\ calls = {} /\ lastResult = NoResult
    /\ deleteError = NoError /\ toasts = {}
    /\ DateIdle /\ FetchIdle /\ AggIdle /\ PageIdle
    /\ serverItems \in ItemLists
    /\ listSeen = NoList

\* a consumer's list call returns the server's items in the given shape
ConsumeList(consumer, shape) ==
    LET took == Consume(consumer, ListBody(shape, serverItems))
    IN /\ listSeen' = [consumer |-> consumer, shape |-> shape, items |-> took.items,
                       toasts |-> took.toasts, threw |-> took.threw]
       /\ UNCHANGED <<httpVars, dateVars, fetchVars, aggVars, serverItems, pageVars>>

ListNext == \E consumer \in ListConsumers, shape \in ListShapes : ConsumeList(consumer, shape)

SpecList == ListInit /\ [][ListNext]_vars

\* C14: every consumer of a list endpoint accepts both response shapes: a bare
\* array and an object {items, total} holding the same items give the consumer
\* the same items, and neither is reported as an error.
C14_BothShapesAccepted ==
    (listSeen.consumer \in ListConsumers /\ listSeen.shape \in {"array", "itemsTotal"}) =>
        /\ listSeen.items = serverItems
        /\ ~listSeen.threw
        /\ \A t \in listSeen.toasts : t.level # "error"

\* C15: when the caller's options already carry a Content-Type header,
\* fetchWithCreds sends that value unchanged; it sets Content-Type:
\* application/json only when the caller gave none.
C15_CallerContentTypeKept ==
    \A r \in lastReqs : r.via = "fetchWithCreds" =>
        r.req.headers["Content-Type"] =
            (IF r.headersInit.given /\ "Content-Type" \in DOMAIN r.headersInit.entries
             THEN r.headersInit.entries["Content-Type"]
             ELSE "application/json")

\* C17: within one run of the full-range fetcher at most one page request is
\* outstanding at any time: the request for skip = (k+1)*P is issued only
\* after the response for skip = k*P has been received, and that response
\* held exactly P items.
C17_OnePageRequestAtATime ==
    /\ Len(skipsIssued) - Len(received) = (IF fetchPc = "awaiting" THEN 1 ELSE 0)
    /\ \A k \in 2 .. Len(skipsIssued) :
          /\ k - 1 <= Len(received)
          /\ received[k - 1].skip = skipsIssued[k - 1]
          /\ received[k - 1].count = DATA_FETCH_LIMIT
          /\ skipsIssued[k] = skipsIssued[k - 1] + DATA_FETCH_LIMIT

C17_Witness ==
    /\ fetchPc = "awaiting"
    /\ skipsIssued = <<0, DATA_FETCH_LIMIT, 2 * DATA_FETCH_LIMIT>>
    /\ received = <<[skip |-> 0, count |-> DATA_FETCH_LIMIT],
                    [skip |-> DATA_FETCH_LIMIT, count |-> DATA_FETCH_LIMIT]>>

\* the elements of a sequence
Range(seq) == {seq[i] : i \in DOMAIN seq}

\* C18: getExpenses sends exactly the filter fields whose value is not
\* undefined: the query-string keys are the fields with a defined value, each
\* once; getCategories and getPaymentMethods send skip and limit only when
\* they are given.
C18_OnlyDefinedFieldsSent ==
    /\ lastQuery.fn = "getExpenses" =>
          /\ Range(lastQuery.keys) =
                {k \in DOMAIN lastQuery.filters : lastQuery.filters[k].form # "undefined"}
          /\ Len(lastQuery.keys) = Cardinality(Range(lastQuery.keys))
          /\ DOMAIN lastQuery.params = Range(lastQuery.keys)
    /\ lastQuery.fn \in {"getCategories", "getPaymentMethods"} =>
          /\ \A k \in {"skip", "limit"} :
                k \in Range(lastQuery.keys) <=> lastQuery.filters[k].form # "undefined"
          /\ Range(lastQuery.keys) \subseteq {"skip", "limit"}
          /\ Len(lastQuery.keys) = Cardinality(Range(lastQuery.keys))

C18_Witness ==
    /\ lastQuery.fn = "getExpenses"
    /\ lastQuery.filters["skip"] = NumberValue(0)
    /\ lastQuery.filters["type"].form = "undefined"
    /\ lastQuery.keys = <<"startDate", "categoryId", "skip">>
    /\ lastQuery.params["skip"] = TextValue("0")

RECURSIVE KnownSpend(_, _)
KnownSpend(cats, exps) ==
    IF cats = <<>> THEN 0 ELSE SpendOf(Head(cats).id, exps) + KnownSpend(Tail(cats), exps)

\* a spend-eligible expense of a category that is not in the list
UnknownSpend(e) ==
    /\ e.type \in {"Need", "Want"} /\ e.amount.isNumber /\ e.amount.v > 0 /\ e.category_id # ""
    /\ \A i \in DOMAIN categories : categories[i].id # e.category_id

\* C20: a spend-eligible expense whose category_id is not in the category
\* list adds to no entry's total: the result has no 'other' or
\* 'uncategorized' entry, and the total spending, the sum of the emitted
\* entries, leaves that amount out.
C20_UnknownCategoryDropped ==
    rendered =>
        /\ \A j \in DOMAIN categorySpendingData :
              \E i \in DOMAIN categories :
                  /\ categorySpendingData[j].name = categories[i].name
                  /\ categorySpendingData[j].value = SpendOf(categories[i].id, allExpenses)
        /\ Len(categorySpendingData) <= Len(categories)
        /\ totalSpending = TotalOf(categorySpendingData)
        /\ totalSpending = KnownSpend(categories, allExpenses)

C20_Witness ==
    /\ rendered
    /\ categories = <<Category("c1", "Food")>>
    /\ \E i \in DOMAIN allExpenses : UnknownSpend(allExpenses[i]) /\ allExpenses[i].category_id = "c2"
    /\ \E i \in DOMAIN allExpenses : UnknownSpend(allExpenses[i]) /\ allExpenses[i].category_id = "c9"
    /\ categorySpendingData = <<[name |-> "Food", value |-> 10]>>
    /\ totalSpending = 10

\* an expense the category aggregation is to leave out: no category id, or an
\* amount that is not a positive number
MalformedForCategories(e) == e.category_id = "" \/ ~e.amount.isNumber \/ e.amount.v <= 0

\* an expense the trend is to leave out: no timestamp, or an amount that is
\* not a positive number
MalformedForTrend(e) == e.timestamp.form = "undefined" \/ ~e.amount.isNumber \/ e.amount.v <= 0

WellFormedForCategories(e) == ~MalformedForCategories(e)
WellFormedForTrend(e) == ~MalformedForTrend(e)

\* the outputs are those computed on the input with the malformed items removed
ExcludesMalformed ==
    /\ categorySpendingData =
          CategorySpending(SelectSeq(allExpenses, WellFormedForCategories), categories)
    /\ spendingTrendData = SpendingTrend(SelectSeq(allExpenses, WellFormedForTrend))

\* C21: both aggregations complete without raising for every expense
\* sequence, and an expense with a missing category id, a non-numeric or
\* non-positive amount, or (for the trend) a missing timestamp is excluded:
\* the output equals the output computed on the input without those items.
C21_NeverRaisesAndExcludesMalformed ==
    renders > 0 => (~renderError /\ rendered /\ ExcludesMalformed)

\* C22: a run of the full-range fetcher over a result set of N items served
\* as honest pages issues at most floor(N/P)+1 requests, and in every run no
\* page is requested after a short, failed or malformed page: such a page is
\* the last one requested and the run is over.
C22_BoundedRequestsAndStopOnShort ==
    /\ Len(skipsIssued) <= (serverN \div DATA_FETCH_LIMIT) + 1
    /\ \A k \in DOMAIN received :
          received[k].count # DATA_FETCH_LIMIT =>
              /\ Len(skipsIssued) = k
              /\ Len(received) = k
              /\ fetchPc = "idle"

C22_Witness ==
    /\ serverN = 2 * DATA_FETCH_LIMIT
    /\ runEnd = [how |-> "short", page |-> 3]
    /\ skipsIssued = <<0, DATA_FETCH_LIMIT, 2 * DATA_FETCH_LIMIT>>
    /\ received[3] = [skip |-> 2 * DATA_FETCH_LIMIT, count |-> 0]
    /\ fetchPc = "idle"

\* a startDate / endDate value that getExpenses is to rewrite: the strict
\* YYYY-MM-DD form naming a date the calendar has
NormalizedByGetExpenses(v) == v.form = "date" /\ IsRealDate(v)

\* the date fields that are not to be rewritten go out as they came in, and
\* every other field goes out as String(value)
OtherFieldsUnchanged ==
    lastQuery.fn = "getExpenses" =>
        \A k \in DOMAIN lastQuery.params :
            /\ (k \in {"startDate", "endDate"} /\ lastQuery.filters[k].form = "instant")
                  => lastQuery.params[k] = lastQuery.filters[k]
            /\ k \notin {"startDate", "endDate"}
                  => lastQuery.params[k] = StringOf(lastQuery.filters[k])

\* C23: getExpenses rewrites only startDate / endDate values that match the
\* strict YYYY-MM-DD pattern and name a real date: a value that does not
\* match (a full ISO instant) or that matches but names no real date is sent
\* unchanged, a matching endDate is sent as UTC midnight of that day, and no
\* other filter field is altered.
C23_OnlyStrictRealDatesNormalized ==
    lastQuery.fn = "getExpenses" =>
        /\ OtherFieldsUnchanged
        /\ \A k \in DOMAIN lastQuery.params \cap {"startDate", "endDate"} :
              ~NormalizedByGetExpenses(lastQuery.filters[k])
                  => lastQuery.params[k] = lastQuery.filters[k]
        /\ ("endDate" \in DOMAIN lastQuery.params
                /\ NormalizedByGetExpenses(lastQuery.filters["endDate"]))
              => lastQuery.params["endDate"] =
                     IsoStr(lastQuery.filters["endDate"].y, lastQuery.filters["endDate"].m,
                            lastQuery.filters["endDate"].d, 0)

\* the step in which logout runs to its end
LogoutCompletes == authCall.op = "logout" /\ authCall'.op = "idle"

\* the step in which a login or signup ends in its catch block
AuthFails ==
    /\ authCall.op \in {"login", "signup"} /\ authCall'.op = "idle"
    /\ lastResult'.outcome.kind = "throw"

\* C24: after logout completes the stored CSRF token is absent and the user
\* is cleared, whether the logout request succeeded or failed; a failed login
\* or signup leaves the stored token exactly as it was.
C24_LogoutClearsFailedAuthKeeps ==
    [][/\ LogoutCompletes => (csrf_token' = NULL /\ user' = NULL)
       /\ AuthFails => csrf_token' = csrf_token]_vars

C24_Witness ==
    /\ lastResult.handler = "AuthProvider" /\ lastResult.op = "logout"
    /\ lastResult.resp.settled = "reject"
    /\ tokenIssued = "cleared" /\ csrf_token = NULL /\ user = NULL /\ pathname = "/login"

\* ------------------------------------------------------------------------
\* src/components/analytics/analytics-page.tsx: the date range, the two
\* effects that depend on it and the handlers that start a fetch.  A call of
\* fetchAllExpensesForRange settles here in one step; its paging loop is the
\* subject of SpecFetch.
\* ------------------------------------------------------------------------
MaxRuns == 2         \* calls of one kind (fetch runs, average-spend calls) in flight at once

\* what the date inputs and the period buttons can select, with today = 2024-01-31
Today == DateStr(2024, 1, 31)
PageDates == {DateStr(2024, 1, 1), Today}

Periods == {"this_month"}

\* handlePeriodSelect: the range of a predefined period
PeriodRange(period) ==
    CASE period = "this_month" -> <<DateStr(2024, 1, 1), Today>>
      [] period = "last_day" -> <<DateStr(2024, 1, 30), DateStr(2024, 1, 30)>>

\* new Date(value) for a date the calendar has
ParsedDate(v) == CHOOSE parsed \in Parses(v) : parsed.valid

\* the startDate / endDate query parameters getExpenses sends for a range
ExpensesInterval(start, end, zone) ==
    [startDate |-> NormalizeDate(start, ParsedDate(start), zone, 0),
     endDate |-> NormalizeDate(end, ParsedDate(end), zone, 0)]

\* the startDate / endDate query parameters getAverageCategorySpend sends
AverageInterval(start, end, zone) ==
    [startDate |-> NormalizeDate(start, ParsedDate(start), zone, 0),
     endDate |-> NormalizeDate(end, ParsedDate(end), zone, EndOfDayMs)]

NoInterval == [startDate |-> UndefinedDate, endDate |-> UndefinedDate]

\* The rows a list endpoint returns for a query are named by the query
ResultOf(query) == <<query>>

\* A call in flight: fetchInitialData awaiting getCategories (stage
\* "categories"), or fetchAllExpensesForRange awaiting getExpenses (stage
\* "expenses"), with the range it was called with and the interval it sent
Run(start, end, stage) ==
    [start |-> start, end |-> end, stage |-> stage,
     sent |-> IF stage = "expenses" THEN ExpensesInterval(start, end, tz) ELSE NoInterval]

AvgCall(start, end) == [start |-> start, end |-> end, sent |-> AverageInterval(start, end, tz)]

\* a sequence without its i-th element
RemoveAt(seq, i) == SubSeq(seq, 1, i - 1) \o SubSeq(seq, i + 1, Len(seq))

ServerCategories == <<Category("c1", "Food")>>

LoadFailed(what) == <<"Failed", "to", "load", "initial", "data:", what>>
AverageFailed == <<"Failed", "to", "fetch", "analytics", "data">>

analyticsFrame ==
    <<csrf_token, tokenIssued, user, pathname, authLoading, authCall, lastReqs, calls, lastResult,
      deleteError, dateVars, serverN, fetchPc, fetchedExpenses, currentSkip, skipsIssued,
      received, runEnd, categorySpendingData, totalSpending, spendingTrendData, rendered,
      renders, renderError, listVars, listPageVars>>

\* the page as mounted with authLoading false: both effects have run up to
\* their await, for the initial range (start of the month to today)
PageInit ==
    /\ csrf_token = NULL /\ tokenIssued = "unset" /\ user = "a@x" /\ pathname = "/analytics"
    /\ authLoading = FALSE /\ authCall = [op |-> "idle", email |-> NULL]
    /\ lastReqs = {} /\ calls = {} /\ lastResult = NoResult
    /\ deleteError = NoError /\ toasts = {}
    /\ DateIdle /\ AggIdle /\ ListIdle
    /\ serverN = 0 /\ fetchPc = "idle" /\ fetchedExpenses = <<>> /\ currentSkip = 0
    /\ skipsIssued = <<>> /\ received = <<>> /\ runEnd = NoRun
    /\ currentPage = 1 /\ totalCount = 0 /\ serverCount = 0 /\ pageFilters = NoFilters
    /\ pageItems = <<>> /\ pageCalls = <<>> /\ countCalls = <<>>
    /\ isLoadingExpenses = FALSE /\ isLoadingTotalCount = FALSE
    /\ selectedStart = DateStr(2024, 1, 1) /\ selectedEnd = Today
    /\ isLoading = TRUE /\ allExpenses = <<>>
    /\ runs = <<Run(DateStr(2024, 1, 1), Today, "categories")>>
    /\ avgCalls = <<AvgCall(DateStr(2024, 1, 1), Today)>>
    /\ averageSpendData = <<>> /\ averageSpendLoading = TRUE /\ averageSpendError = NoError

\* The two effects with [startDate, endDate] among their dependencies, run
\* after a render in which the range changed: fetchInitialData up to its
\* await of getCategories, and the average-spend request
RangeEffects(start, end, runsNow) ==
    /\ runs' = Append(runsNow, Run(start, end, "categories"))
    /\ isLoading' = TRUE
    /\ avgCalls' = Append(avgCalls, AvgCall(start, end))
    /\ averageSpendLoading' = TRUE
    /\ averageSpendError' = NoError

\* onChange of a date input (enabled while the page is not loading)
DateInputChange(field, value) ==
    /\ ~isLoading /\ ~authLoading
    /\ Len(runs) < MaxRuns /\ Len(avgCalls) < MaxRuns
    /\ IF field = "startDate"
       THEN value # selectedStart /\ selectedStart' = value /\ UNCHANGED selectedEnd
       ELSE value # selectedEnd /\ selectedEnd' = value /\ UNCHANGED selectedStart
    /\ RangeEffects(selectedStart', selectedEnd', runs)
    /\ UNCHANGED <<allExpenses, categories, averageSpendData, toasts>>
    /\ UNCHANGED analyticsFrame

\* handlePeriodSelect: the range is set and fetched at once; the effects
\* follow when the range differs from the one selected before
HandlePeriodSelect(period) ==
    LET start == PeriodRange(period)[1]
        end == PeriodRange(period)[2]
        direct == Append(runs, Run(start, end, "expenses"))
    IN /\ ~isLoading /\ ~authLoading
       /\ runs = <<>> /\ Len(avgCalls) < MaxRuns
       /\ selectedStart' = start /\ selectedEnd' = end
       /\ IF start # selectedStart \/ end # selectedEnd
          THEN RangeEffects(start, end, direct)
          ELSE /\ runs' = direct
               /\ isLoading' = TRUE
               /\ UNCHANGED <<avgCalls, averageSpendLoading, averageSpendError>>
       /\ UNCHANGED <<allExpenses, categories, averageSpendData, toasts>>
       /\ UNCHANGED analyticsFrame

\* handleDateChange: the Load Report Data button
HandleDateChange ==
    /\ ~isLoading /\ ~authLoading
    /\ Len(runs) < MaxRuns
    /\ IF InvalidDateRange(selectedStart, selectedEnd)
       THEN /\ toasts' = {Toast("error", InvalidRange)}
            /\ UNCHANGED <<runs, isLoading>>
       ELSE /\ runs' = Append(runs, Run(selectedStart, selectedEnd, "expenses"))
            /\ isLoading' = TRUE
            /\ UNCHANGED toasts
    /\ UNCHANGED <<selectedStart, selectedEnd, allExpenses, categories, avgCalls,
                   averageSpendData, averageSpendLoading, averageSpendError>>
    /\ UNCHANGED analyticsFrame

\* fetchInitialData from the settling of getCategories to its next await or
\* its end: on success fetchAllExpensesForRange is entered, which returns at
\* once for an invalid range
CategoriesSettle(i, ok) ==
    /\ i \in DOMAIN runs /\ runs[i].stage = "categories"
    /\ IF ~ok
       THEN \* catch of fetchInitialData
            /\ toasts' = {Toast("error", LoadFailed("categories"))}
            /\ categories' = <<>>
            /\ allExpenses' = <<>>
            /\ isLoading' = FALSE
            /\ runs' = RemoveAt(runs, i)
       ELSE IF InvalidDateRange(runs[i].start, runs[i].end)
       THEN \* the early return of fetchAllExpensesForRange; nothing throws
            /\ toasts' = {Toast("error", InvalidRange)}
            /\ categories' = ServerCategories
            /\ runs' = RemoveAt(runs, i)
            /\ UNCHANGED <<allExpenses, isLoading>>
       ELSE /\ categories' = ServerCategories
            /\ isLoading' = TRUE
            /\ runs' = [runs EXCEPT ![i] = Run(runs[i].start, runs[i].end, "expenses")]
            /\ UNCHANGED <<allExpenses, toasts>>
    /\ UNCHANGED <<selectedStart, selectedEnd, avgCalls, averageSpendData,
                   averageSpendLoading, averageSpendError>>
    /\ UNCHANGED analyticsFrame

\* fetchAllExpensesForRange from the settling of its last getExpenses call to its end
ExpensesSettle(i, ok) ==
    /\ i \in DOMAIN runs /\ runs[i].stage = "expenses"
    /\ IF ok
       THEN /\ allExpenses' = ResultOf(runs[i].sent)
            /\ toasts' = {Toast("success", FetchedCount)}
       ELSE /\ allExpenses' = StoredOnThrow(allExpenses)
            /\ toasts' = {Toast("error", FetchFailed)}
    /\ isLoading' = FALSE
    /\ runs' = RemoveAt(runs, i)
    /\ UNCHANGED <<selectedStart, selectedEnd, categories, avgCalls, averageSpendData,
                   averageSpendLoading, averageSpendError>>
    /\ UNCHANGED analyticsFrame

\* the then / catch / finally of the average-spend effect
AverageSettle(i, ok) ==
    /\ i \in DOMAIN avgCalls
    /\ IF ok
       THEN /\ averageSpendData' = ResultOf(avgCalls[i].sent)
            /\ UNCHANGED averageSpendError
       ELSE /\ averageSpendData' = <<>>
            /\ averageSpendError' = AverageFailed
    /\ averageSpendLoading' = FALSE
    /\ avgCalls' = RemoveAt(avgCalls, i)
    /\ UNCHANGED <<selectedStart, selectedEnd, runs, isLoading, allExpenses, categories, toasts>>
    /\ UNCHANGED analyticsFrame

\* the steps the network takes
PageSettles ==
    \/ \E i \in 1 .. MaxRuns, ok \in BOOLEAN : CategoriesSettle(i, ok)
    \/ \E i \in 1 .. MaxRuns, ok \in BOOLEAN : ExpensesSettle(i, ok)
    \/ \E i \in 1 .. MaxRuns, ok \in BOOLEAN : AverageSettle(i, ok)

PageNext ==
    \/ \E field \in {"startDate", "endDate"}, value \in PageDates : DateInputChange(field, value)
    \/ \E period \in Periods : HandlePeriodSelect(period)
    \/ HandleDateChange
    \/ PageSettles

SpecPage == PageInit /\ [][PageNext]_vars

\* every request is answered or fails in the end
SpecPageLive == SpecPage /\ WF_vars(PageSettles)

\* C25: on the analytics page every change of the selected date range,
\* including a change to a range whose start date is after its end date, is
\* eventually followed by the loading flag returning to false.
C25_LoadingEventuallyEnds == isLoading ~> ~isLoading

\* C26: once no full-range fetch is in flight, the expenses the charts use are
\* the result of the fetch for the selected range, whatever the order in which
\* overlapping fetches completed.
C26_ChartsShowSelectedRange ==
    (runs = <<>> /\ allExpenses # <<>> /\ ~InvalidDateRange(selectedStart, selectedEnd)) =>
        allExpenses = ResultOf(ExpensesInterval(selectedStart, selectedEnd, tz))

\* C28: for the same selected range the interval sent by the full-range
\* expense fetch and the interval sent by the average-spend call are the same.
C28_SameIntervalForChartsAndAverages ==
    \A i \in DOMAIN runs, j \in DOMAIN avgCalls :
        ( /\ runs[i].stage = "expenses"
          /\ runs[i].start = avgCalls[j].start /\ runs[i].end = avgCalls[j].end )
        => runs[i].sent = avgCalls[j].sent

\* C29: once no average-spend request is in flight, the rows shown are the
\* response for the selected range: a late response to an earlier range never
\* replaces the rows of a later one.
C29_AveragesShowSelectedRange ==
    (avgCalls = <<>> /\ averageSpendData # <<>>) =>
        averageSpendData = ResultOf(AverageInterval(selectedStart, selectedEnd, tz))

\* ------------------------------------------------------------------------
\* The expenses page: one page of rows and a total count, fetched by
\* independent requests that nothing cancels
\* ------------------------------------------------------------------------
MaxCalls == 2        \* requests of one kind (page, count) in flight at once

ITEMS_PER_PAGE_EXPENSES == 10

TypeChoices == {"all", "Need"}

\* handleFilterChange: "all" and "" clear the filter
ApiValue(value) == IF value = "all" \/ value = "" THEN UNDEFINED ELSE value

\* how many expenses the server holds under a filter (each below
\* COUNT_FETCH_LIMIT, so the counting loop ends with its first response)
CountFor(filters) == IF filters.type = UNDEFINED THEN 25 ELSE 12

CeilDiv(n, size) == (n + size - 1) \div size

\* the request of fetchExpensesPage(pageToFetch), made with the filters of
\* the render that created the callback
PageCall(filters, pageToFetch) ==
    [filters |-> filters, skip |-> (pageToFetch - 1) * ITEMS_PER_PAGE_EXPENSES,
     limit |-> ITEMS_PER_PAGE_EXPENSES]

CountCall(filters) == [filters |-> filters]

\* the rows the server returns to a page request, named by the request
RowsOf(call) == <<call>>

LoadPageFailed == <<"Failed", "to", "load", "expenses", "page">>
CountFailed == <<"Failed", "to", "calculate", "total", "expenses">>

expensesFrame ==
    <<csrf_token, tokenIssued, user, pathname, authLoading, authCall, lastReqs, calls, lastResult,
      deleteError, dateVars, fetchVars, aggVars, listVars, analyticsVars, serverCount>>

ExpensesInit ==
    /\ csrf_token = NULL /\ tokenIssued = "unset" /\ user = "a@x" /\ pathname = "/expenses"
    /\ authLoading = FALSE /\ authCall = [op |-> "idle", email |-> NULL]
    /\ lastReqs = {} /\ calls = {} /\ lastResult = NoResult
    /\ deleteError = NoError /\ toasts = {}
    /\ DateIdle /\ FetchIdle /\ AggIdle /\ ListIdle
    /\ selectedStart = UndefinedDate /\ selectedEnd = UndefinedDate
    /\ runs = <<>> /\ avgCalls = <<>>
    /\ averageSpendData = <<>> /\ averageSpendLoading = FALSE /\ averageSpendError = NoError
    /\ serverCount = 0
    /\ currentPage = 1 /\ pageFilters = NoFilters /\ totalCount = 0 /\ pageItems = <<>>
    /\ pageCalls = <<PageCall(NoFilters, 1)>> /\ countCalls = <<CountCall(NoFilters)>>
    /\ isLoadingExpenses = TRUE /\ isLoadingTotalCount = TRUE

\* fetchExpensesPage(currentPage) and fetchTotalExpenseCount() up to their
\* first await
StartPageAndCount(filters, page) ==
    /\ Len(pageCalls) < MaxCalls /\ Len(countCalls) < MaxCalls
    /\ pageCalls' = Append(pageCalls, PageCall(filters, page))
    /\ countCalls' = Append(countCalls, CountCall(filters))
    /\ isLoadingExpenses' = TRUE /\ isLoadingTotalCount' = TRUE
    /\ totalCount' = 0

\* handleFilterChange / clearFilters: a new filters object and page 1; the
\* filters effect fetches page 1 and the count, the page effect skips page 1
HandleFilterChange(value) ==
    /\ pageFilters' = [pageFilters EXCEPT !.type = ApiValue(value)]
    /\ currentPage' = 1
    /\ StartPageAndCount(pageFilters', 1)
    /\ UNCHANGED <<pageItems, toasts>>
    /\ UNCHANGED expensesFrame

\* the Previous and Next buttons of ExpensesList, then the page effect
HandlePageChange(newPage) ==
    /\ ~isLoadingExpenses /\ ~isLoadingTotalCount
    /\ CeilDiv(totalCount, ITEMS_PER_PAGE_EXPENSES) > 1
    /\ \/ newPage = currentPage - 1 /\ currentPage # 1
       \/ newPage = currentPage + 1 /\ currentPage < CeilDiv(totalCount, ITEMS_PER_PAGE_EXPENSES)
    /\ newPage > 0
    /\ currentPage' = newPage
    /\ IF newPage # 1
       THEN /\ Len(pageCalls) < MaxCalls
            /\ pageCalls' = Append(pageCalls, PageCall(pageFilters, newPage))
            /\ isLoadingExpenses' = TRUE
       ELSE UNCHANGED <<pageCalls, isLoadingExpenses>>
    /\ UNCHANGED <<pageFilters, pageItems, totalCount, countCalls, isLoadingTotalCount, toasts>>
    /\ UNCHANGED expensesFrame

\* handleSuccess after an add or edit, and onRefresh of the list
HandleSuccess ==
    /\ StartPageAndCount(pageFilters, currentPage)
    /\ UNCHANGED <<currentPage, pageFilters, pageItems, toasts>>
    /\ UNCHANGED expensesFrame

\* fetchExpensesPage after its await
PageSettle(i, ok) ==
    /\ i \in DOMAIN pageCalls
    /\ IF ok
       THEN pageItems' = RowsOf(pageCalls[i]) /\ UNCHANGED toasts
       ELSE pageItems' = <<>> /\ toasts' = {Toast("error", LoadPageFailed)}
    /\ isLoadingExpenses' = FALSE
    /\ pageCalls' = RemoveAt(pageCalls, i)
    /\ UNCHANGED <<currentPage, pageFilters, totalCount, countCalls, isLoadingTotalCount>>
    /\ UNCHANGED expensesFrame

\* fetchTotalExpenseCount after its loop
CountSettle(i, ok) ==
    /\ i \in DOMAIN countCalls
    /\ IF ok
       THEN totalCount' = CountFor(countCalls[i].filters) /\ UNCHANGED toasts
       ELSE totalCount' = 0 /\ toasts' = {Toast("error", CountFailed)}
    /\ isLoadingTotalCount' = FALSE
    /\ countCalls' = RemoveAt(countCalls, i)
    /\ UNCHANGED <<currentPage, pageFilters, pageItems, pageCalls, isLoadingExpenses>>
    /\ UNCHANGED expensesFrame

ExpensesNext ==
    \/ \E value \in TypeChoices : HandleFilterChange(value)
    \/ \E newPage \in 0..4 : HandlePageChange(newPage)
    \/ HandleSuccess
    \/ \E i \in 1..MaxCalls, ok \in BOOLEAN : PageSettle(i, ok)
    \/ \E i \in 1..MaxCalls, ok \in BOOLEAN : CountSettle(i, ok)

SpecExpenses == ExpensesInit /\ [][ExpensesNext]_vars

\* C27: on the expenses page, once no list request is in flight, the rows
\* shown and the total count are those returned for the current filters and
\* the current page number, whatever the order in which the responses of
\* overlapping page and count requests arrived.
C27_PageAndCountAreCurrent ==
    (pageCalls = <<>> /\ countCalls = <<>>) =>
        /\ pageItems # <<>> => pageItems = RowsOf(PageCall(pageFilters, currentPage))
        /\ totalCount # 0 => totalCount = CountFor(pageFilters)

\* ------------------------------------------------------------------------
\* The categories and payment-methods pages: a page number, the total of the
\* last fetch, and the rows the server holds
\* ------------------------------------------------------------------------
MaxRows == 22        \* rows the server holds for the collection at most
InitialRows == 21    \* rows it holds when the page is opened: two pages

ITEMS_PER_PAGE == 20

PagedRoutes == {"/categories", "/payment-methods"}

\* what the server answers to a page request: { items, total }, a bare
\* array, a body of another shape, or a failure
PageShapes == {"paged", "array", "invalid", "throw"}

\* the rows of the page that starts at skip
RowsAt(skip, rows) == Min(ITEMS_PER_PAGE, Max(0, rows - skip))

\* Math.ceil(total / ITEMS_PER_PAGE)
TotalPages(total) == CeilDiv(total, ITEMS_PER_PAGE)

LoadListFailed(route) == <<"Failed", "to", "load", route>>
InvalidListData(route) ==
    <<"Failed", "to", "load", route, "due", "to", "invalid", "data", "format">>

\* the total fetchCategories / fetchPaymentMethods stores for a response
TotalOfResponse(shape, skip, rows) ==
    CASE shape = "paged" -> rows
      [] shape = "array" -> RowsAt(skip, rows)
      [] OTHER -> 0

pagingFrame ==
    <<csrf_token, tokenIssued, user, pathname, authLoading, authCall, lastReqs, calls, lastResult,
      deleteError, dateVars, serverN, allExpenses, fetchPc, fetchedExpenses, currentSkip,
      skipsIssued, received, runEnd, aggVars, listVars, analyticsVars, pageFilters, countCalls,
      isLoadingExpenses, isLoadingTotalCount>>

PagingInit ==
    /\ csrf_token = NULL /\ tokenIssued = "unset" /\ user = "a@x" /\ pathname \in PagedRoutes
    /\ authLoading = FALSE /\ authCall = [op |-> "idle", email |-> NULL]
    /\ lastReqs = {} /\ calls = {} /\ lastResult = NoResult
    /\ deleteError = NoError /\ toasts = {}
    /\ DateIdle /\ AggIdle /\ ListIdle
    /\ serverN = 0 /\ fetchPc = "idle" /\ fetchedExpenses = <<>> /\ currentSkip = 0
    /\ skipsIssued = <<>> /\ received = <<>> /\ runEnd = NoRun /\ allExpenses = <<>>
    /\ selectedStart = UndefinedDate /\ selectedEnd = UndefinedDate
    /\ runs = <<>> /\ avgCalls = <<>>
    /\ averageSpendData = <<>> /\ averageSpendLoading = FALSE /\ averageSpendError = NoError
    /\ pageFilters = NoFilters /\ countCalls = <<>>
    /\ isLoadingExpenses = FALSE /\ isLoadingTotalCount = FALSE
    /\ serverCount = InitialRows
    /\ currentPage = 1 /\ totalCount = 0 /\ pageItems = <<>>
    /\ isLoading = TRUE
    /\ pageCalls = <<[skip |-> 0, limit |-> ITEMS_PER_PAGE]>>

\* fetchCategories(page) / fetchPaymentMethods(page) up to the await
StartListFetch(page) ==
    /\ Len(pageCalls) < MaxCalls
    /\ isLoading' = TRUE
    /\ pageCalls' = Append(pageCalls, [skip |-> (page - 1) * ITEMS_PER_PAGE,
                                       limit |-> ITEMS_PER_PAGE])

\* a pagination link, then the effect on currentPage; the links are rendered
\* when the page is not loading and there is more than one page
ListHandlePageChange(newPage) ==
    /\ ~isLoading /\ TotalPages(totalCount) > 1
    /\ newPage >= 1 /\ newPage <= TotalPages(totalCount) /\ newPage # currentPage
    /\ currentPage' = newPage
    /\ StartListFetch(newPage)
    /\ UNCHANGED <<totalCount, serverCount, pageItems, toasts>>
    /\ UNCHANGED pagingFrame

\* handleSuccess after the form created a row (created) or edited one; the
\* Add button of the categories page is disabled while the page is loading
ListHandleSuccess(created) ==
    /\ pathname = "/categories" => ~isLoading
    /\ IF created
       THEN serverCount < MaxRows /\ serverCount' = serverCount + 1
       ELSE UNCHANGED serverCount
    /\ StartListFetch(currentPage)
    /\ UNCHANGED <<currentPage, totalCount, pageItems, toasts>>
    /\ UNCHANGED pagingFrame

\* handleDelete of the list on a row that is shown, then onRefresh
ListHandleDelete ==
    /\ ~isLoading /\ pageItems # <<>> /\ pageItems[1] > 0 /\ serverCount > 0
    /\ serverCount' = serverCount - 1
    /\ StartListFetch(currentPage)
    /\ UNCHANGED <<currentPage, totalCount, pageItems, toasts>>
    /\ UNCHANGED pagingFrame

\* fetchCategories / fetchPaymentMethods after the await
ListFetchSettle(i, shape) ==
    /\ i \in DOMAIN pageCalls
    /\ totalCount' = TotalOfResponse(shape, pageCalls[i].skip, serverCount)
    /\ pageItems' = IF shape \in {"paged", "array"}
                    THEN <<RowsAt(pageCalls[i].skip, serverCount)>>
                    ELSE <<>>
    /\ toasts' = CASE shape = "invalid" -> {Toast("error", InvalidListData(pathname))}
                   [] shape = "throw" -> {Toast("error", LoadListFailed(pathname))}
                   [] OTHER -> toasts
    /\ isLoading' = FALSE
    /\ pageCalls' = RemoveAt(pageCalls, i)
    /\ UNCHANGED <<currentPage, serverCount>>
    /\ UNCHANGED pagingFrame

PagingNext ==
    \/ \E newPage \in 0..3 : ListHandlePageChange(newPage)
    \/ \E created \in BOOLEAN : ListHandleSuccess(created)
    \/ ListHandleDelete
    \/ \E i \in 1..MaxCalls, shape \in PageShapes : ListFetchSettle(i, shape)

SpecPaging == PagingInit /\ [][PagingNext]_vars

\* C30: on the categories and payment-methods pages, after any sequence of
\* page changes, creates, deletes and re-fetches, the current page number is
\* within 1..max(1, totalPages), totalPages being ceil(total / 20) of the
\* most recently fetched total.
C30_CurrentPageWithinPages ==
    pageCalls = <<>> =>
        (currentPage >= 1 /\ currentPage <= Max(1, TotalPages(totalCount)))

====
